---------------------------- MODULE Spec2Model ----------------------------
(***************************************************************************)
(* A model of the ATS backend (FastAPI): the authentication / session      *)
(* subsystem over the key-value session store, user management, and the    *)
(* company-scoped job and application endpoints.                           *)
(*                                                                         *)
(* The state is exercised by these specifications:                         *)
(*   SpecAuth     - login, refresh, logout over the session / refresh /    *)
(*                  blacklist store, with the clock                        *)
(*   SpecAccess   - the dependency chain (active / admin) and is_active    *)
(*   SpecSessions - repeated logins against the concurrent-session cap     *)
(*   SpecUsers    - the users table under signup and the user endpoints    *)
(*   SpecJobs     - the job endpoints under the tenant rules               *)
(*   SpecApps     - the application and matching endpoints                 *)
(*   SpecApply    - applications created, updated, deleted in sequence     *)
(*   SpecRace     - two workers running create_application concurrently    *)
(*   SpecLimiter  - the in-memory rate limiter under a ticking clock        *)
(*   SpecThrottle - a burst of logins from one client within a minute       *)
(*   SpecOutage   - the store operations while the backend may fail         *)
(*   SpecDevices  - logout-all, the session listing, revoking a session     *)
(*   SpecSignup   - signups with email and username into an empty table     *)
(*   SpecCompanies- delete_company with create_job and update_user          *)
(*   SpecMatching - process_resume_files and the manual match endpoint      *)
(*   SpecRanking  - rank_resumes_by_similarity over short resume lists      *)
(*   SpecStatus   - the match status of two-decimal scores and thresholds   *)
(*   SpecSkills   - calculate_skills_similarity over small skill sets       *)
(*   SpecCredentials - protected requests carrying any token held           *)
(*   SpecCache    - the embedding cache filled past its size limit          *)
(*   SpecJobMatch - per-job matching over applications with resumes         *)
(***************************************************************************)
EXTENDS Integers, FiniteSets, Sequences, TLC

VARIABLES
    now,          \* wall clock, in minutes
    users,        \* the users table: email -> row
    sessions,     \* store keys "session:<uid>:<sid>"  -> [value, expires]
    refreshStore, \* store keys "refresh_token:<tok>"   -> [value, expires]
    blacklist,    \* store keys "blacklist:<tok>"       -> [value, expires]
    tokens,       \* every token issued so far (what clients may present)
    issued,       \* number of uuid4 session ids / jtis drawn so far
    resp,         \* the response to the last request
    jobs,         \* the jobs table: job id -> row
    apps,         \* the applications table: a set of rows
    nextJob,      \* number of job ids drawn so far
    nextApp,      \* number of application ids drawn so far
    wpc,          \* per worker: position inside create_application
    wreq,         \* per worker: the request being handled
    requests,     \* SimpleRateLimiter.requests: key -> request times
    companies,    \* the companies table: the set of company ids
    matching_results, \* the matching_results table: a set of rows
    svc,          \* the last call of a matching service method and its result
    embeddings_cache  \* SimilarityEngine._embeddings_cache, in insertion order

authVars == <<now, users, sessions, refreshStore, blacklist, tokens, issued>>
dbVars   == <<jobs, apps, nextJob, nextApp>>
raceVars == <<wpc, wreq>>
svcVars  == <<svc, embeddings_cache>>
extVars  == <<requests, companies, matching_results, svcVars>>
vars     == <<now, users, sessions, refreshStore, blacklist, tokens, issued,
              resp, jobs, apps, nextJob, nextApp, wpc, wreq,
              requests, companies, matching_results, svc, embeddings_cache>>

(***************************************************************************)
(* Settings (app/core/config.py)                                           *)
(***************************************************************************)
ACCESS_TOKEN_EXPIRE_MINUTES == 15
REFRESH_TOKEN_EXPIRE_DAYS == 7
IDLE_TIMEOUT_MINUTES == 30
MAX_CONCURRENT_SESSIONS == 3

(***************************************************************************)
(* Bounds of the model                                                     *)
(***************************************************************************)
MaxTicks == 2        \* the clock advances at most this many times
MaxIssue == 2        \* token pairs issued under SpecAuth
MaxLogins == 4       \* token pairs issued under SpecSessions

None == "None"

\* uuid4(): the n-th session id and the n-th jti drawn are new
SessionUuids == <<"s1", "s2", "s3", "s4", "s5", "s6", "s7", "s8">>
JtiUuids == <<"j1", "j2", "j3", "j4", "j5", "j6", "j7", "j8">>
SessionUuid(n) == SessionUuids[n]
JtiUuid(n) == JtiUuids[n]

TickMinutes == ACCESS_TOKEN_EXPIRE_MINUTES
MinutesPerDay == 24 * 60

\* dict operations
Put(m, k, v) == [x \in (DOMAIN m) \cup {k} |-> IF x = k THEN v ELSE m[x]]
Del(m, k) == [x \in (DOMAIN m) \ {k} |-> m[x]]
Get(d, field) == IF field \in DOMAIN d THEN d[field] ELSE None
EmptyMap == [x \in {} |-> None]

(***************************************************************************)
(* Users, roles, companies                                                 *)
(***************************************************************************)
Roles == {"admin", "recruiter", "candidate"}
Companies == {"cX", "cY"}
CompanyOpt == Companies \cup {None}

UserRow(username, role, company, active) ==
    [registered |-> TRUE, username |-> username, role |-> role,
     company_id |-> company, is_active |-> active]
NoUser ==
    [registered |-> FALSE, username |-> None, role |-> None,
     company_id |-> None, is_active |-> FALSE]

(***************************************************************************)
(* Tokens (app/core/auth.py)                                               *)
(***************************************************************************)
NoToken == [type |-> "none", sub |-> None, session_id |-> None, jti |-> None, exp |-> 0]
\* a string that is not a token signed with SECRET_KEY
Forged  == [type |-> "forged", sub |-> None, session_id |-> None, jti |-> None, exp |-> 0]

create_access_token(sub, session_id) ==
    [type |-> "access", sub |-> sub, session_id |-> session_id, jti |-> None,
     exp |-> now + ACCESS_TOKEN_EXPIRE_MINUTES]

create_refresh_token(sub, jti) ==
    [type |-> "refresh", sub |-> sub, session_id |-> None, jti |-> jti,
     exp |-> now + REFRESH_TOKEN_EXPIRE_DAYS * MinutesPerDay]

\* jwt.decode: the signature verifies and exp is not in the past
JwtDecodes(t) == t.type \in {"access", "refresh"} /\ ~(t.exp < now)

(***************************************************************************)
(* The session / token store (app/core/redis_client.py)                    *)
(***************************************************************************)
Entry(v, expires_in) == [value |-> v, expires |-> now + expires_in]
\* _is_expired
IsExpired(item) == now >= item.expires
Live(m) == {k \in DOMAIN m : ~IsExpired(m[k])}

\* blacklist_token
BlacklistToken(bl, t, expires_in) == Put(bl, t, Entry("1", expires_in))
\* is_token_blacklisted
IsTokenBlacklisted(t) == t \in Live(blacklist)

\* store_session / delete_session: the key is "session:" + the string given
StoreSession(ss, key, data, expires_in) == Put(ss, key, Entry(data, expires_in))
DeleteSession(ss, key) == Del(ss, key)

\* store_refresh_token / get_refresh_token_data / delete_refresh_token
StoreRefreshToken(rs, t, uid, expires_in) ==
    Put(rs, t, Entry([user_id |-> uid], expires_in))
HasRefreshTokenData(t) == t \in Live(refreshStore)
\* (mutant) the old record is left in place
DeleteRefreshTokenKept(rs, t) == rs
DeleteRefreshToken(rs, t) == Del(rs, t)

\* get_user_sessions: the stored payloads of the user's live keys.  The code
\* returns the payloads only (a list); the keys are kept here to count them.
UserSessionKeys(ss, uid) == {k \in DOMAIN ss : k[1] = uid /\ ~IsExpired(ss[k])}
GetUserSessions(uid) ==
    [k \in UserSessionKeys(sessions, uid) |-> sessions[k].value]

\* (mutant) the user's session records are left in place
DeleteAllUserSessionsKept(ss, uid) == ss
\* delete_all_user_sessions
DeleteAllUserSessions(ss, uid) == [k \in {x \in DOMAIN ss : x[1] # uid} |-> ss[k]]

(***************************************************************************)
(* Session payloads                                                        *)
(***************************************************************************)
\* get_client_info(request): a dict
ClientInfo == [kind |-> "dict", t |-> 0]
\* datetime.utcnow().isoformat(): a string, ordered like the time
IsoNow == [kind |-> "str", t |-> now]

\* the payload login and signup store: no "session_id" key
LoginSessionData(uid) ==
    [user_id |-> uid, email |-> uid, created_at |-> ClientInfo,
     last_activity |-> ClientInfo, client_info |-> ClientInfo]
\* the payload get_current_user stores: no "session_id", no "created_at"
ActivitySessionData(uid) ==
    [user_id |-> uid, email |-> uid, last_activity |-> IsoNow,
     client_info |-> ClientInfo]


(***************************************************************************)
(* Requests and responses                                                  *)
(***************************************************************************)
UserIds == {"u1", "u2"}

\* what a client can put in a cookie or an Authorization header
Presentable == tokens \cup {NoToken, Forged}
RefreshCookies == {t \in tokens : t.type = "refresh"} \cup {NoToken}
\* a browser's session cookie or bearer header: an access token it was given
SessionCookies == {t \in tokens : t.type = "access"} \cup {NoToken, Forged}
\* the header is read only when the session cookie is absent
Bearers(cookie) == IF cookie = NoToken THEN SessionCookies ELSE {NoToken}

Reply(op, status, user, token, access, refresh) ==
    [op |-> op, status |-> status, user |-> user, token |-> token,
     access_token |-> access, refresh_token |-> refresh]

(***************************************************************************)
(* verify_token, get_current_user and the dependencies layered on it       *)
(***************************************************************************)
\* the token get_current_user reads: the cookie first, then the header
RequestToken(cookie, bearer) == IF cookie # NoToken THEN cookie ELSE bearer

\* verify_token returns token data (not None)
VerifyToken(t) == ~IsTokenBlacklisted(t) /\ JwtDecodes(t) /\ t.sub # None

\* get_current_user returns a user (does not raise 401)
CurrentUserResolves(cookie, bearer) ==
    LET t == RequestToken(cookie, bearer)
    IN  t # NoToken /\ VerifyToken(t) /\ users[t.sub].registered

\* the session store after get_current_user has refreshed the activity
TouchSession(cookie, bearer) ==
    LET t == RequestToken(cookie, bearer)
    IN  StoreSession(sessions, <<t.sub, t.session_id>>,
                     ActivitySessionData(t.sub), IDLE_TIMEOUT_MINUTES)

\* get_current_active_user / get_current_admin_user /
\* get_current_recruiter_user: the status they raise, 200 when they pass
ActiveUserStatus(u) == IF ~users[u].is_active THEN 400 ELSE 200
AdminUserStatus(u) ==
    IF ActiveUserStatus(u) # 200 THEN ActiveUserStatus(u)
    ELSE IF users[u].role # "admin" THEN 403 ELSE 200
RecruiterUserStatus(u) ==
    IF ActiveUserStatus(u) # 200 THEN ActiveUserStatus(u)
    ELSE IF users[u].role \notin {"admin", "recruiter"} THEN 403 ELSE 200

(***************************************************************************)
(* Auth endpoints (app/api/v1/endpoints/auth.py)                           *)
(***************************************************************************)
\* min(existing_sessions, key=last_activity) compares the keys pairwise:
\* a dict on either side of "<" raises TypeError
MinRaises(existing) ==
    /\ Cardinality(DOMAIN existing) >= 2
    /\ \E k \in DOMAIN existing : existing[k].last_activity.kind = "dict"
Oldest(existing) ==
    {existing[k] : k \in {x \in DOMAIN existing :
        \A y \in DOMAIN existing :
            existing[x].last_activity.t <= existing[y].last_activity.t}}

\* the tail shared by signup and login: new session id, token pair, refresh
\* record, session record; ss is the session store to add to
IssueSession(op, uid, ss) ==
    /\ LET session_id == SessionUuid(issued + 1)
           access == create_access_token(uid, session_id)
           refresh == create_refresh_token(uid, JtiUuid(issued + 1))
       IN  /\ issued' = issued + 1
           /\ tokens' = tokens \cup {access, refresh}
           /\ refreshStore' = StoreRefreshToken(refreshStore, refresh, uid,
                                  REFRESH_TOKEN_EXPIRE_DAYS * MinutesPerDay)
           /\ sessions' = StoreSession(ss, <<uid, session_id>>,
                                  LoginSessionData(uid), IDLE_TIMEOUT_MINUTES)
           /\ resp' = Reply(op, 200, uid, NoToken, access, refresh)

\* (mutant) only the email is looked up
ExistingUserByEmail(email, username) == users[email].registered
\* the query of signup and create_user: a row with the email or the username
ExistingUser(email, username) ==
    \E x \in DOMAIN users :
        users[x].registered /\ (x = email \/ users[x].username = username)

Signup(email, username, role, company_id) ==
    /\ IF ExistingUser(email, username)
         THEN /\ resp' = Reply("signup", 400, None, NoToken, NoToken, NoToken)
              /\ UNCHANGED <<users, sessions, refreshStore, tokens, issued>>
       ELSE IF role = "recruiter" /\ company_id = None
         THEN /\ resp' = Reply("signup", 400, None, NoToken, NoToken, NoToken)
              /\ UNCHANGED <<users, sessions, refreshStore, tokens, issued>>
       ELSE /\ users' = [users EXCEPT ![email] =
                                UserRow(username, role, company_id, TRUE)]
            /\ IssueSession("signup", email, sessions)
    /\ UNCHANGED <<now, blacklist, dbVars, raceVars, extVars>>

Login(email, password_ok) ==
    /\ LET user == users[email]
           existing == GetUserSessions(email)
           full == Cardinality(DOMAIN existing) >= MAX_CONCURRENT_SESSIONS
       IN  IF ~user.registered \/ ~password_ok
             THEN /\ resp' = Reply("login", 401, None, NoToken, NoToken, NoToken)
                  /\ UNCHANGED <<sessions, refreshStore, tokens, issued>>
           ELSE IF ~user.is_active
             THEN /\ resp' = Reply("login", 400, None, NoToken, NoToken, NoToken)
                  /\ UNCHANGED <<sessions, refreshStore, tokens, issued>>
           ELSE IF full /\ MinRaises(existing)
             THEN \* unhandled TypeError: Internal Server Error
                  /\ resp' = Reply("login", 500, None, NoToken, NoToken, NoToken)
                  /\ UNCHANGED <<sessions, refreshStore, tokens, issued>>
           ELSE IF full
             THEN \E oldest_session \in Oldest(existing) :
                    IssueSession("login", email,
                        DeleteSession(sessions,
                            <<email, Get(oldest_session, "session_id")>>))
           ELSE IssueSession("login", email, sessions)
    /\ UNCHANGED <<now, users, blacklist, dbVars, raceVars, extVars>>

\* refresh_access_token returns token data (not None)
RefreshAccepted(rt) ==
    /\ JwtDecodes(rt)
    /\ rt.sub # None /\ rt.jti # None
    /\ HasRefreshTokenData(rt)
    /\ users[rt.sub].registered /\ users[rt.sub].is_active

Refresh(refresh_cookie) ==
    /\ IF refresh_cookie = NoToken \/ ~RefreshAccepted(refresh_cookie)
         THEN /\ resp' = Reply("refresh", 401, None, NoToken, NoToken, NoToken)
              /\ UNCHANGED <<refreshStore, tokens, issued>>
       ELSE /\ LET uid == refresh_cookie.sub
                   access == create_access_token(uid, SessionUuid(issued + 1))
                   refresh == create_refresh_token(uid, JtiUuid(issued + 1))
               IN  /\ issued' = issued + 1
                   /\ tokens' = tokens \cup {access, refresh}
                   /\ refreshStore' =
                        DeleteRefreshToken(
                            StoreRefreshToken(refreshStore, refresh, uid,
                                REFRESH_TOKEN_EXPIRE_DAYS * MinutesPerDay),
                            refresh_cookie)
                   /\ resp' = Reply("refresh", 200, uid, refresh_cookie, access, refresh)
    /\ UNCHANGED <<now, users, sessions, blacklist, dbVars, raceVars, extVars>>

Logout(cookie, refresh_cookie, bearer) ==
    /\ IF ~CurrentUserResolves(cookie, bearer)
         THEN /\ resp' = Reply("logout", 401, None, NoToken, NoToken, NoToken)
              /\ UNCHANGED <<sessions, refreshStore, blacklist>>
       ELSE LET uid == RequestToken(cookie, bearer).sub
            IN  /\ blacklist' =
                     IF cookie # NoToken
                       THEN BlacklistToken(blacklist, cookie, ACCESS_TOKEN_EXPIRE_MINUTES)
                       ELSE blacklist
                /\ refreshStore' =
                     IF refresh_cookie # NoToken
                       THEN DeleteRefreshToken(refreshStore, refresh_cookie)
                       ELSE refreshStore
                /\ sessions' = DeleteSession(TouchSession(cookie, bearer), <<uid, "*">>)
                /\ resp' = Reply("logout", 200, uid, RequestToken(cookie, bearer),
                                 NoToken, NoToken)
    /\ UNCHANGED <<now, users, tokens, issued, dbVars, raceVars, extVars>>

\* GET /users/me: an endpoint behind get_current_user alone
GetCurrentUserInfo(cookie, bearer) ==
    /\ IF ~CurrentUserResolves(cookie, bearer)
         THEN /\ resp' = Reply("get_current_user_info", 401, None, NoToken, NoToken, NoToken)
              /\ UNCHANGED sessions
       ELSE /\ sessions' = TouchSession(cookie, bearer)
            /\ resp' = Reply("get_current_user_info", 200,
                             RequestToken(cookie, bearer).sub,
                             RequestToken(cookie, bearer), NoToken, NoToken)
    /\ UNCHANGED <<now, users, refreshStore, blacklist, tokens, issued, dbVars, raceVars, extVars>>

\* GET /users/: an endpoint behind get_current_admin_user
GetAllUsers(cookie, bearer) ==
    /\ IF ~CurrentUserResolves(cookie, bearer)
         THEN /\ resp' = Reply("get_all_users", 401, None, NoToken, NoToken, NoToken)
              /\ UNCHANGED sessions
       ELSE /\ sessions' = TouchSession(cookie, bearer)
            /\ resp' = Reply("get_all_users",
                             AdminUserStatus(RequestToken(cookie, bearer).sub),
                             RequestToken(cookie, bearer).sub,
                             RequestToken(cookie, bearer), NoToken, NoToken)
    /\ UNCHANGED <<now, users, refreshStore, blacklist, tokens, issued, dbVars, raceVars, extVars>>

(***************************************************************************)
(* The environment of the auth subsystem                                   *)
(***************************************************************************)
\* time passes; the store drops the keys whose TTL has run out
Tick ==
    /\ now < MaxTicks * TickMinutes
    /\ now' = now + TickMinutes
    /\ sessions' = [k \in {x \in DOMAIN sessions : sessions[x].expires > now'}
                        |-> sessions[k]]
    /\ refreshStore' = [k \in {x \in DOMAIN refreshStore : refreshStore[x].expires > now'}
                        |-> refreshStore[k]]
    /\ blacklist' = [k \in {x \in DOMAIN blacklist : blacklist[x].expires > now'}
                        |-> blacklist[k]]
    /\ UNCHANGED <<users, tokens, issued, resp, dbVars, raceVars, extVars>>

\* an operator clears users.is_active in the database (no endpoint does)
DeactivateUser(email) ==
    /\ users[email].registered /\ users[email].is_active
    /\ users' = [users EXCEPT ![email].is_active = FALSE]
    /\ UNCHANGED <<now, sessions, refreshStore, blacklist, tokens, issued, resp,
                   dbVars, raceVars, extVars>>

NoReply == Reply("none", 0, None, NoToken, NoToken, NoToken)

dbIdle ==
    /\ jobs = EmptyMap /\ apps = {} /\ nextJob = 0 /\ nextApp = 0
    /\ wpc = EmptyMap /\ wreq = EmptyMap

\* a fresh limiter, every company row present, no stored matching run, no
\* service call made and an empty embedding cache
extIdle ==
    /\ requests = EmptyMap
    /\ companies = Companies
    /\ matching_results = {}
    /\ svc = [op |-> "none"]
    /\ embeddings_cache = <<>>

storeEmpty ==
    /\ now = 0
    /\ sessions = EmptyMap /\ refreshStore = EmptyMap /\ blacklist = EmptyMap
    /\ tokens = {} /\ issued = 0
    /\ resp = NoReply
    /\ extIdle

(***************************************************************************)
(* SpecAuth: one registered user logging in, refreshing, logging out       *)
(***************************************************************************)
InitAuth ==
    /\ users = [u \in UserIds |->
                  IF u = "u1" THEN UserRow(u, "candidate", None, TRUE) ELSE NoUser]
    /\ storeEmpty
    /\ dbIdle

NextAuth ==
    \/ \E e \in UserIds, ok \in BOOLEAN : issued < MaxIssue /\ Login(e, ok)
    \/ \E rc \in Presentable : issued < MaxIssue /\ Refresh(rc)
    \/ \E c \in SessionCookies : \E rc \in RefreshCookies : \E b \in Bearers(c) :
          Logout(c, rc, b)
    \/ \E c \in SessionCookies : \E b \in Bearers(c) : GetCurrentUserInfo(c, b)
    \/ Tick

SpecAuth == InitAuth /\ [][NextAuth]_vars

(***************************************************************************)
(* SpecAccess: who gets past the dependencies of the protected endpoints   *)
(***************************************************************************)
InitAccess ==
    /\ users = [u \in UserIds |->
                  IF u = "u1" THEN UserRow(u, "admin", None, TRUE) ELSE NoUser]
    /\ storeEmpty
    /\ dbIdle

NextAccess ==
    \/ \E e \in UserIds, r \in {"candidate", "recruiter"} :
          issued < MaxIssue /\ Signup(e, e, r, None)
    \/ \E e \in UserIds, ok \in BOOLEAN : issued < MaxIssue /\ Login(e, ok)
    \/ \E rc \in Presentable : issued < MaxIssue /\ Refresh(rc)
    \/ \E c \in SessionCookies : \E b \in Bearers(c) : GetCurrentUserInfo(c, b)
    \/ \E c \in SessionCookies : \E b \in Bearers(c) : GetAllUsers(c, b)
    \/ \E e \in UserIds : DeactivateUser(e)

SpecAccess == InitAccess /\ [][NextAccess]_vars

(***************************************************************************)
(* SpecSessions: repeated logins of registered users and their requests    *)
(***************************************************************************)
InitSessions ==
    /\ users = [u \in UserIds |-> UserRow(u, "candidate", None, TRUE)]
    /\ storeEmpty
    /\ dbIdle

NextSessions ==
    \/ \E e \in UserIds, ok \in BOOLEAN : issued < MaxLogins /\ Login(e, ok)
    \/ \E c \in SessionCookies : \E b \in Bearers(c) : GetCurrentUserInfo(c, b)
    \/ Tick

SpecSessions == InitSessions /\ [][NextSessions]_vars

(***************************************************************************)
(* User management (app/api/v1/endpoints/users.py).  The caller of a       *)
(* handler is the user get_current_user resolved from the request's token. *)
(***************************************************************************)
\* the response of a users / jobs / applications / matching handler
Answer(op, status, user, target, body) ==
    [op |-> op, status |-> status, user |-> user, target |-> target,
     body |-> body]

UserFields == {"role", "company_id"}
\* user_update.dict(exclude_unset=True): the fields the request carries
UpdateData ==
    UNION {{d \in [S -> Roles \cup CompanyOpt] :
               /\ ("role" \in S => d["role"] \in Roles)
               /\ ("company_id" \in S => d["company_id"] \in CompanyOpt)} :
           S \in SUBSET UserFields}

\* for field, value in update_data.items(): setattr(user, field, value)
ApplyUpdate(row, d) ==
    [row EXCEPT !.role = IF "role" \in DOMAIN d THEN d["role"] ELSE @,
                !.company_id = IF "company_id" \in DOMAIN d
                                 THEN d["company_id"] ELSE @]

\* a row of jobs or applications references the user (foreign keys)
UserReferenced(u) ==
    \/ \E j \in DOMAIN jobs : jobs[j].user_id = u
    \/ \E a \in apps : a.user_id = u

usersFrame ==
    UNCHANGED <<now, sessions, refreshStore, blacklist, tokens, issued,
                dbVars, raceVars, extVars>>

UpdateCurrentUser(caller, d) ==
    /\ users' = [users EXCEPT ![caller] = ApplyUpdate(@, d)]
    /\ resp' = Answer("update_current_user", 200, caller, caller, {caller})
    /\ usersFrame

CreateUser(caller, email, role, company_id) ==
    /\ IF AdminUserStatus(caller) # 200
         THEN /\ resp' = Answer("create_user", AdminUserStatus(caller), caller, email, {})
              /\ UNCHANGED users
       ELSE IF ExistingUser(email, email)
         THEN /\ resp' = Answer("create_user", 400, caller, email, {})
              /\ UNCHANGED users
       ELSE IF role = "recruiter" /\ company_id = None
         THEN /\ resp' = Answer("create_user", 400, caller, email, {})
              /\ UNCHANGED users
       ELSE /\ users' = [users EXCEPT ![email] =
                                UserRow(email, role, company_id, TRUE)]
            /\ resp' = Answer("create_user", 200, caller, email, {email})
    /\ usersFrame

\* the recruiter-needs-a-company check of update_user
UpdateUserRejects(user, d) ==
    /\ Get(d, "role") = "recruiter" /\ Get(d, "company_id") = None
    /\ ~(user.role = "recruiter" /\ user.company_id # None)

UpdateUser(caller, user_id, d) ==
    /\ IF AdminUserStatus(caller) # 200
         THEN /\ resp' = Answer("update_user", AdminUserStatus(caller), caller, user_id, {})
              /\ UNCHANGED users
       ELSE IF ~users[user_id].registered
         THEN /\ resp' = Answer("update_user", 404, caller, user_id, {})
              /\ UNCHANGED users
       ELSE IF UpdateUserRejects(users[user_id], d)
         THEN /\ resp' = Answer("update_user", 400, caller, user_id, {})
              /\ UNCHANGED users
       ELSE /\ users' = [users EXCEPT ![user_id] = ApplyUpdate(@, d)]
            /\ resp' = Answer("update_user", 200, caller, user_id, {user_id})
    /\ usersFrame

DeleteUser(caller, user_id) ==
    /\ IF AdminUserStatus(caller) # 200
         THEN /\ resp' = Answer("delete_user", AdminUserStatus(caller), caller, user_id, {})
              /\ UNCHANGED users
       ELSE IF ~users[user_id].registered
         THEN /\ resp' = Answer("delete_user", 404, caller, user_id, {})
              /\ UNCHANGED users
       ELSE IF user_id = caller
         THEN /\ resp' = Answer("delete_user", 400, caller, user_id, {})
              /\ UNCHANGED users
       ELSE IF UserReferenced(user_id)
         THEN \* the commit violates a foreign key: unhandled IntegrityError
              /\ resp' = Answer("delete_user", 500, caller, user_id, {})
              /\ UNCHANGED users
       ELSE /\ users' = [users EXCEPT ![user_id] = NoUser]
            /\ resp' = Answer("delete_user", 200, caller, user_id, {user_id})
    /\ usersFrame

(***************************************************************************)
(* SpecUsers: the users table under signup and the user endpoints          *)
(***************************************************************************)
Accounts == {"u0", "u1"}
Registered == {u \in DOMAIN users : users[u].registered}

InitUsers ==
    /\ users = [u \in Accounts |->
                   IF u = "u0" THEN UserRow(u, "admin", None, TRUE) ELSE NoUser]
    /\ storeEmpty /\ dbIdle

NextUsers ==
    \/ \E e \in Accounts : \E r \in Roles : \E c \in CompanyOpt :
          issued < MaxIssue /\ Signup(e, e, r, c)
    \/ \E u \in Registered : \E e \in Accounts : \E r \in Roles :
          \E c \in CompanyOpt : CreateUser(u, e, r, c)
    \/ \E u \in Registered : \E t \in Accounts : \E d \in UpdateData :
          UpdateUser(u, t, d)
    \/ \E u \in Registered : \E d \in UpdateData : UpdateCurrentUser(u, d)
    \/ \E u \in Registered : \E t \in Accounts : DeleteUser(u, t)

SpecUsers == InitUsers /\ [][NextUsers]_vars

(***************************************************************************)
(* Jobs (app/api/v1/endpoints/jobs.py)                                     *)
(***************************************************************************)
JobStatuses == {"active", "closed"}
ApplicationStatuses == {"pending", "accepted"}
ResumeUrls == {None, "resume.pdf"}

JobRow(user_id, company_id, status) ==
    [user_id |-> user_id, company_id |-> company_id, status |-> status]
ApplicationRow(id, user_id, job_id, status, resume_url) ==
    [id |-> id, user_id |-> user_id, job_id |-> job_id, status |-> status,
     resume_url |-> resume_url]

dbFrame == UNCHANGED <<authVars, raceVars, extVars>>

\* the company check of get_job
JobReadStatus(u, job) ==
    IF users[u].role = "recruiter" /\ users[u].company_id # None
         /\ job.company_id # users[u].company_id
      THEN 403 ELSE 200

\* (mutant) the company check of update_job / delete_job left out
JobWriteStatusOpen(u, job) == 200
\* the permission check of update_job, delete_job and
\* get_applications_for_job
JobWriteStatus(u, job) ==
    IF users[u].role = "admin" THEN 200
    ELSE IF users[u].role = "recruiter"
      THEN IF users[u].company_id = None
                \/ job.company_id # users[u].company_id
             THEN 403 ELSE 200
    ELSE 403

\* rows of applications whose job_id references the job
JobApplications(job_id) == {a \in apps : a.job_id = job_id}

CreateJob(u) ==
    /\ IF RecruiterUserStatus(u) # 200
         THEN /\ resp' = Answer("create_job", RecruiterUserStatus(u), u, None, {})
              /\ UNCHANGED <<jobs, nextJob>>
       ELSE IF users[u].company_id = None
         THEN /\ resp' = Answer("create_job", 400, u, None, {})
              /\ UNCHANGED <<jobs, nextJob>>
       ELSE /\ jobs' = Put(jobs, nextJob + 1,
                           JobRow(u, users[u].company_id, "active"))
            /\ nextJob' = nextJob + 1
            /\ resp' = Answer("create_job", 200, u, None, {nextJob + 1})
    /\ UNCHANGED <<apps, nextApp>>
    /\ dbFrame

GetJobs(u) ==
    /\ resp' = Answer("get_jobs", 200, u, None,
         {j \in DOMAIN jobs :
             /\ jobs[j].status = "active"
             /\ (users[u].role = "recruiter" /\ users[u].company_id # None)
                    => jobs[j].company_id = users[u].company_id})
    /\ UNCHANGED dbVars
    /\ dbFrame

GetJob(u, job_id) ==
    /\ IF job_id \notin DOMAIN jobs
         THEN resp' = Answer("get_job", 404, u, job_id, {})
       ELSE IF JobReadStatus(u, jobs[job_id]) # 200
         THEN resp' = Answer("get_job", 403, u, job_id, {})
       ELSE resp' = Answer("get_job", 200, u, job_id, {job_id})
    /\ UNCHANGED dbVars
    /\ dbFrame

UpdateJob(u, job_id, status) ==
    /\ IF RecruiterUserStatus(u) # 200
         THEN /\ resp' = Answer("update_job", RecruiterUserStatus(u), u, job_id, {})
              /\ UNCHANGED jobs
       ELSE IF job_id \notin DOMAIN jobs
         THEN /\ resp' = Answer("update_job", 404, u, job_id, {})
              /\ UNCHANGED jobs
       ELSE IF JobWriteStatus(u, jobs[job_id]) # 200
         THEN /\ resp' = Answer("update_job", 403, u, job_id, {})
              /\ UNCHANGED jobs
       ELSE /\ jobs' = [jobs EXCEPT ![job_id].status = status]
            /\ resp' = Answer("update_job", 200, u, job_id, {job_id})
    /\ UNCHANGED <<apps, nextJob, nextApp>>
    /\ dbFrame

DeleteJob(u, job_id) ==
    /\ IF RecruiterUserStatus(u) # 200
         THEN /\ resp' = Answer("delete_job", RecruiterUserStatus(u), u, job_id, {})
              /\ UNCHANGED jobs
       ELSE IF job_id \notin DOMAIN jobs
         THEN /\ resp' = Answer("delete_job", 404, u, job_id, {})
              /\ UNCHANGED jobs
       ELSE IF JobWriteStatus(u, jobs[job_id]) # 200
         THEN /\ resp' = Answer("delete_job", 403, u, job_id, {})
              /\ UNCHANGED jobs
       ELSE IF JobApplications(job_id) # {}
         THEN \* applications.job_id is NOT NULL and references the job:
              \* the commit raises IntegrityError, nothing is deleted
              /\ resp' = Answer("delete_job", 500, u, job_id, {})
              /\ UNCHANGED jobs
       ELSE /\ jobs' = Del(jobs, job_id)
            /\ resp' = Answer("delete_job", 200, u, job_id, {job_id})
    /\ UNCHANGED <<apps, nextJob, nextApp>>
    /\ dbFrame

(***************************************************************************)
(* Applications (app/api/v1/endpoints/applications.py)                     *)
(***************************************************************************)
JobOf(a) == jobs[a.job_id]
ApplicationIds == {a.id : a \in apps}
ApplicationById(id) == CHOOSE a \in apps : a.id = id

\* "existing_application": the user's rows for the job
ExistingApplications(u, job_id) ==
    {a \in apps : a.user_id = u /\ a.job_id = job_id}

\* (mutant) the existence check finds nothing
ExistingApplicationNever(u, job_id) == FALSE
ExistingApplication(u, job_id) == ExistingApplications(u, job_id) # {}

\* the permission check shared by get / update / delete_application
ApplicationAccessStatus(u, a) ==
    IF users[u].role = "candidate" /\ a.user_id # u THEN 403
    ELSE IF users[u].role = "recruiter"
            /\ (users[u].company_id = None
                  \/ JobOf(a).company_id # users[u].company_id)
      THEN 403
    ELSE 200

CreateApplication(u, job_id, resume_url) ==
    /\ IF job_id \notin DOMAIN jobs
         THEN /\ resp' = Answer("create_application", 404, u, job_id, {})
              /\ UNCHANGED <<apps, nextApp>>
       ELSE IF jobs[job_id].status # "active"
         THEN /\ resp' = Answer("create_application", 400, u, job_id, {})
              /\ UNCHANGED <<apps, nextApp>>
       ELSE IF ExistingApplication(u, job_id)
         THEN /\ resp' = Answer("create_application", 400, u, job_id, {})
              /\ UNCHANGED <<apps, nextApp>>
       ELSE /\ apps' = apps \cup
                 {ApplicationRow(nextApp + 1, u, job_id, "pending", resume_url)}
            /\ nextApp' = nextApp + 1
            /\ resp' = Answer("create_application", 200, u, job_id, {nextApp + 1})
    /\ UNCHANGED <<jobs, nextJob>>
    /\ dbFrame

\* the rows get_applications returns
ApplicationsVisibleTo(u) ==
    IF users[u].role = "candidate"
      THEN {a \in apps : a.user_id = u}
    ELSE IF users[u].role \in {"recruiter", "admin"}
      THEN IF users[u].role = "recruiter" /\ users[u].company_id # None
             THEN {a \in apps : JobOf(a).company_id = users[u].company_id}
           ELSE apps
    ELSE {}

GetApplications(u) ==
    /\ resp' = Answer("get_applications", 200, u, None,
                      {a.id : a \in ApplicationsVisibleTo(u)})
    /\ UNCHANGED dbVars
    /\ dbFrame

GetApplication(u, application_id) ==
    /\ IF application_id \notin ApplicationIds
         THEN resp' = Answer("get_application", 404, u, application_id, {})
       ELSE IF ApplicationAccessStatus(u, ApplicationById(application_id)) # 200
         THEN resp' = Answer("get_application", 403, u, application_id, {})
       ELSE resp' = Answer("get_application", 200, u, application_id, {application_id})
    /\ UNCHANGED dbVars
    /\ dbFrame

UpdateApplication(u, application_id, status) ==
    /\ IF application_id \notin ApplicationIds
         THEN /\ resp' = Answer("update_application", 404, u, application_id, {})
              /\ UNCHANGED apps
       ELSE IF ApplicationAccessStatus(u, ApplicationById(application_id)) # 200
         THEN /\ resp' = Answer("update_application", 403, u, application_id, {})
              /\ UNCHANGED apps
       ELSE /\ apps' = {IF a.id = application_id
                          THEN [a EXCEPT !.status = status] ELSE a : a \in apps}
            /\ resp' = Answer("update_application", 200, u, application_id, {application_id})
    /\ UNCHANGED <<jobs, nextJob, nextApp>>
    /\ dbFrame

DeleteApplication(u, application_id) ==
    /\ IF application_id \notin ApplicationIds
         THEN /\ resp' = Answer("delete_application", 404, u, application_id, {})
              /\ UNCHANGED apps
       ELSE IF ApplicationAccessStatus(u, ApplicationById(application_id)) # 200
         THEN /\ resp' = Answer("delete_application", 403, u, application_id, {})
              /\ UNCHANGED apps
       ELSE /\ apps' = {a \in apps : a.id # application_id}
            /\ resp' = Answer("delete_application", 200, u, application_id, {application_id})
    /\ UNCHANGED <<jobs, nextJob, nextApp>>
    /\ dbFrame

GetApplicationsForJob(u, job_id) ==
    /\ IF RecruiterUserStatus(u) # 200
         THEN resp' = Answer("get_applications_for_job",
                             RecruiterUserStatus(u), u, job_id, {})
       ELSE IF job_id \notin DOMAIN jobs
         THEN resp' = Answer("get_applications_for_job", 404, u, job_id, {})
       ELSE IF JobWriteStatus(u, jobs[job_id]) # 200
         THEN resp' = Answer("get_applications_for_job", 403, u, job_id, {})
       ELSE resp' = Answer("get_applications_for_job", 200, u, job_id,
                           {a.id : a \in JobApplications(job_id)})
    /\ UNCHANGED dbVars
    /\ dbFrame

(***************************************************************************)
(* Per-job matching (app/api/v1/endpoints/matching.py).  The response body *)
(* is the set of applications whose candidate data it carries.             *)
(***************************************************************************)
\* applications of the job that carry a resume
ApplicationsWithResume(job_id) ==
    {a \in JobApplications(job_id) : a.resume_url # None}

\* users.full_name of the accounts of the model; names are not unique, and
\* two names that differ only in case or spacing are two names
FullName(u) ==
    CASE u = "c1" -> "Ann Lee"
      [] u = "c2" -> "ann lee"
      [] u = "rx" -> "Raj Rao"
      [] OTHER -> u

\* name.replace(' ', '_').lower()
LowerUnderscore(name) ==
    CASE name = "Ann Lee" -> "ann_lee"
      [] name = "ann lee" -> "ann_lee"
      [] name = "Raj Rao" -> "raj_rao"
      [] OTHER -> name

\* line 201: the filename of an application's resume (less the constant
\* suffix "_resume.pdf"); candidate_name is the applicant's full_name
\* (applications.py:48)
ResumeFilename(a) == LowerUnderscore(FullName(a.user_id))

\* lines 179-204: application_map[filename] = application, over the rows in
\* the order the query returns them (by id here): a later application of
\* the same filename replaces the earlier one
ApplicationMap(fetched) ==
    [f \in {ResumeFilename(a) : a \in fetched} |->
        CHOOSE a \in fetched :
            /\ ResumeFilename(a) = f
            /\ \A b \in fetched : ResumeFilename(b) = f => a.id >= b.id]

\* lines 230-253: one candidate entry per result, joined to an application
\* through the result's filename; resume_of names the application whose
\* resume the scores of the entry were computed from
CandidateResults(processed) ==
    {LET application == ApplicationMap(processed)[ResumeFilename(a)]
     IN  [application_id |-> application.id,
          candidate_id |-> application.user_id,
          resume_url |-> application.resume_url,
          resume_of |-> a.id] : a \in processed}

\* processed: the applications whose resume could be fetched and parsed;
\* the body is the set of application ids the candidate entries carry
MatchResumesForJob(u, job_id, processed) ==
    /\ IF RecruiterUserStatus(u) # 200
         THEN resp' = Answer("match_resumes_for_job",
                             RecruiterUserStatus(u), u, job_id, {})
       ELSE IF job_id \notin DOMAIN jobs
         THEN resp' = Answer("match_resumes_for_job", 404, u, job_id, {})
       ELSE IF ApplicationsWithResume(job_id) = {}
         THEN resp' = Answer("match_resumes_for_job", 404, u, job_id, {})
       ELSE IF processed \cap ApplicationsWithResume(job_id) = {}
         THEN resp' = Answer("match_resumes_for_job", 400, u, job_id, {})
       ELSE resp' = Answer("match_resumes_for_job", 200, u, job_id,
                {c.application_id :
                    c \in CandidateResults(
                             processed \cap ApplicationsWithResume(job_id))})
    /\ UNCHANGED dbVars
    /\ dbFrame

\* the body is the set of jobs listed, each with its application count
GetAvailableJobsForMatching(u) ==
    /\ IF RecruiterUserStatus(u) # 200
         THEN resp' = Answer("get_available_jobs_for_matching",
                             RecruiterUserStatus(u), u, None, {})
       ELSE resp' = Answer("get_available_jobs_for_matching", 200, u, None,
                {j \in DOMAIN jobs : /\ jobs[j].status = "active"
                                     /\ ApplicationsWithResume(j) # {}})
    /\ UNCHANGED dbVars
    /\ dbFrame

(***************************************************************************)
(* SpecJobs: the job endpoints, with applications that reference jobs      *)
(***************************************************************************)
MaxJobs == 2         \* jobs created
MaxApps == 2         \* applications created

DbUsers == {"adm", "rx", "ry", "r0", "c1", "c2"}
Applicants == {"c1", "c2"}
JobIds == 1..MaxJobs
AppIds == 1..MaxApps

\* an admin, a recruiter of each company, a recruiter whose company_id is
\* null (a profile update can produce one), two candidates
DbUsersTable ==
    [u \in DbUsers |->
        CASE u = "adm" -> UserRow(u, "admin", None, TRUE)
          [] u = "rx"  -> UserRow(u, "recruiter", "cX", TRUE)
          [] u = "ry"  -> UserRow(u, "recruiter", "cY", TRUE)
          [] u = "r0"  -> UserRow(u, "recruiter", None, TRUE)
          [] OTHER     -> UserRow(u, "candidate", None, TRUE)]

dbStart ==
    /\ users = DbUsersTable
    /\ now = 0
    /\ sessions = EmptyMap /\ refreshStore = EmptyMap /\ blacklist = EmptyMap
    /\ tokens = {} /\ issued = 0
    /\ resp = Answer("none", 0, None, None, {})
    /\ extIdle

InitJobs == dbStart /\ dbIdle

NextJobs ==
    \/ \E u \in DbUsers : nextJob < MaxJobs /\ CreateJob(u)
    \/ \E u \in DbUsers : GetJobs(u)
    \/ \E u \in DbUsers : \E j \in JobIds : GetJob(u, j)
    \/ \E u \in DbUsers : \E j \in JobIds : \E st \in JobStatuses :
          UpdateJob(u, j, st)
    \/ \E u \in DbUsers : \E j \in JobIds : DeleteJob(u, j)
    \/ \E j \in JobIds : nextApp < MaxApps /\ CreateApplication("c1", j, None)

SpecJobs == InitJobs /\ [][NextJobs]_vars

(***************************************************************************)
(* SpecApps: the application and matching endpoints over three jobs:       *)
(* an active job of each company and a closed one                          *)
(***************************************************************************)
JobsTable ==
    (1 :> JobRow("rx", "cX", "active")) @@
    (2 :> JobRow("ry", "cY", "active")) @@
    (3 :> JobRow("rx", "cX", "closed"))
\* job ids a request may name: the three jobs and one that does not exist
RequestJobIds == 1..4

InitApps ==
    /\ dbStart
    /\ jobs = JobsTable /\ nextJob = 3
    /\ apps = {} /\ nextApp = 0
    /\ wpc = EmptyMap /\ wreq = EmptyMap

NextApps ==
    \/ \E u \in Applicants : \E j \in RequestJobIds : \E r \in ResumeUrls :
          nextApp < MaxApps /\ CreateApplication(u, j, r)
    \/ \E u \in DbUsers : GetApplications(u)
    \/ \E u \in DbUsers : \E a \in AppIds : GetApplication(u, a)
    \/ \E u \in DbUsers : \E a \in AppIds : \E st \in ApplicationStatuses :
          UpdateApplication(u, a, st)
    \/ \E u \in DbUsers : \E a \in AppIds : DeleteApplication(u, a)
    \/ \E u \in DbUsers : \E j \in RequestJobIds : GetApplicationsForJob(u, j)
    \/ \E u \in DbUsers : \E j \in RequestJobIds :
          \E p \in SUBSET ApplicationsWithResume(j) :
              MatchResumesForJob(u, j, p)
    \/ \E u \in DbUsers : GetAvailableJobsForMatching(u)

SpecApps == InitApps /\ [][NextApps]_vars

(***************************************************************************)
(* SpecApply: applications created, updated and deleted one request at a   *)
(* time                                                                    *)
(***************************************************************************)
NextApply ==
    \/ \E u \in Applicants : \E j \in RequestJobIds : \E r \in ResumeUrls :
          nextApp < MaxApps /\ CreateApplication(u, j, r)
    \/ \E u \in DbUsers : \E a \in AppIds : \E st \in ApplicationStatuses :
          UpdateApplication(u, a, st)
    \/ \E u \in DbUsers : \E a \in AppIds : DeleteApplication(u, a)

SpecApply == InitApps /\ [][NextApply]_vars

(***************************************************************************)
(* SpecRace: create_application run by two workers over one database.      *)
(* Each worker's queries see what has been committed (READ COMMITTED);     *)
(* the applications table has no unique constraint.                        *)
(***************************************************************************)
Workers == {"w1", "w2"}
NoRequest == [user |-> None, job_id |-> 0, resume_url |-> None, status |-> 0]

raceFrame == UNCHANGED <<authVars, resp, jobs, nextJob, extVars>>

\* lines 18-30: look the job up, refuse a missing or inactive job
BeginCreateApplication(w, u, job_id, resume_url) ==
    /\ wpc[w] = "idle"
    /\ IF job_id \notin DOMAIN jobs
         THEN /\ wreq' = [wreq EXCEPT ![w] = [user |-> u, job_id |-> job_id,
                             resume_url |-> resume_url, status |-> 404]]
              /\ UNCHANGED wpc
       ELSE IF jobs[job_id].status # "active"
         THEN /\ wreq' = [wreq EXCEPT ![w] = [user |-> u, job_id |-> job_id,
                             resume_url |-> resume_url, status |-> 400]]
              /\ UNCHANGED wpc
       ELSE /\ wreq' = [wreq EXCEPT ![w] = [user |-> u, job_id |-> job_id,
                             resume_url |-> resume_url, status |-> 0]]
            /\ wpc' = [wpc EXCEPT ![w] = "check"]
    /\ UNCHANGED <<apps, nextApp>>
    /\ raceFrame

\* lines 32-42: the existence query and its 400
CheckExistingApplication(w) ==
    /\ wpc[w] = "check"
    /\ IF ExistingApplication(wreq[w].user, wreq[w].job_id)
         THEN /\ wreq' = [wreq EXCEPT ![w].status = 400]
              /\ wpc' = [wpc EXCEPT ![w] = "idle"]
       ELSE /\ wpc' = [wpc EXCEPT ![w] = "insert"]
            /\ UNCHANGED wreq
    /\ UNCHANGED <<apps, nextApp>>
    /\ raceFrame

\* lines 44-53: add, commit
InsertApplication(w) ==
    /\ wpc[w] = "insert"
    /\ apps' = apps \cup {ApplicationRow(nextApp + 1, wreq[w].user,
                              wreq[w].job_id, "pending", wreq[w].resume_url)}
    /\ nextApp' = nextApp + 1
    /\ wreq' = [wreq EXCEPT ![w].status = 200]
    /\ wpc' = [wpc EXCEPT ![w] = "idle"]
    /\ raceFrame

InitRace ==
    /\ dbStart
    /\ jobs = JobsTable /\ nextJob = 3
    /\ apps = {} /\ nextApp = 0
    /\ wpc = [w \in Workers |-> "idle"]
    /\ wreq = [w \in Workers |-> NoRequest]

NextRace ==
    \/ \E w \in Workers : \E u \in Applicants : \E j \in RequestJobIds :
          \E r \in ResumeUrls :
              nextApp < MaxApps /\ BeginCreateApplication(w, u, j, r)
    \/ \E w \in Workers : CheckExistingApplication(w)
    \/ \E w \in Workers : InsertApplication(w)

SpecRace == InitRace /\ [][NextRace]_vars

(***************************************************************************)
(* Claims about sessions and tokens                                        *)
(***************************************************************************)
LiveSessionCount(e) == Cardinality(UserSessionKeys(sessions, e))

\* C1: login enforces the concurrent-session cap: no user ever has more
\* than MAX_CONCURRENT_SESSIONS live sessions.
C1_SessionCap ==
    \A e \in UserIds : LiveSessionCount(e) <= MAX_CONCURRENT_SESSIONS

C3_LogoutBlacklistsToken ==
    [][ \A c \in SessionCookies : \A rc \in RefreshCookies : \A b \in Bearers(c) :
            (Logout(c, rc, b) /\ resp'.status = 200) =>
                LET t == RequestToken(c, b)
                IN  /\ t \in DOMAIN blacklist'
                    /\ blacklist'[t].expires >= t.exp
      ]_vars

\* C4: an endpoint other than signup and login serves a request only when
\* it carries a valid access token of an existing, active user; without a
\* token the answer is 401.
C4_ProtectedNeedActiveUser ==
    [][ \A c \in SessionCookies : \A b \in Bearers(c) :
            (GetCurrentUserInfo(c, b) \/ GetAllUsers(c, b)) =>
                /\ (RequestToken(c, b) = NoToken => resp'.status = 401)
                /\ (resp'.status = 200 =>
                       /\ CurrentUserResolves(c, b)
                       /\ users[RequestToken(c, b).sub].is_active)
      ]_vars

(***************************************************************************)
(* Claims about tenants, roles and applications                            *)
(***************************************************************************)
\* u is a recruiter bound to a company
BoundRecruiter(u) == users[u].role = "recruiter" /\ users[u].company_id # None

C6_ApplicationTenantIsolation ==
    [][ \A u \in DbUsers : BoundRecruiter(u) =>
          /\ \A a \in AppIds : \A st \in ApplicationStatuses :
                ((GetApplication(u, a) \/ UpdateApplication(u, a, st)
                     \/ DeleteApplication(u, a)) /\ resp'.status = 200)
                  => JobOf(ApplicationById(a)).company_id = users[u].company_id
          /\ \A j \in RequestJobIds :
                ((GetApplicationsForJob(u, j)
                     \/ \E p \in SUBSET ApplicationsWithResume(j) :
                            MatchResumesForJob(u, j, p))
                   /\ resp'.status = 200)
                  => jobs[j].company_id = users[u].company_id
          /\ GetAvailableJobsForMatching(u) =>
                \A j \in resp'.body : jobs[j].company_id = users[u].company_id
      ]_vars

\* what the role-scoped list is said to return
ScopedApplications(u) ==
    CASE users[u].role = "candidate" -> {a \in apps : a.user_id = u}
      [] BoundRecruiter(u) ->
             {a \in apps : JobOf(a).company_id = users[u].company_id}
      [] users[u].role = "recruiter" /\ users[u].company_id = None -> {}
      [] OTHER -> apps

\* C7: the application list returns a candidate's own applications, a
\* bound recruiter's company's applications, nothing to a recruiter with no
\* company, and everything to an admin.
C7_RoleScopedList ==
    [][ \A u \in DbUsers :
          GetApplications(u) =>
              resp'.body = {a.id : a \in ScopedApplications(u)}
      ]_vars

\* C8: every registered recruiter has a company.
C8_RecruitersHaveCompany ==
    \A u \in DOMAIN users :
        (users[u].registered /\ users[u].role = "recruiter")
            => users[u].company_id # None

AtMostOnePerPair(rows) ==
    \A a, b \in rows :
        (a.user_id = b.user_id /\ a.job_id = b.job_id) => a = b

\* C9: handled one at a time, requests never leave two applications for
\* one (user_id, job_id); a create by a user who already has an application
\* for the job is answered 400 and adds no row.
C9_OneApplicationPerPair ==
    [][ /\ AtMostOnePerPair(apps')
        /\ resp'.op = "create_application" =>
              \A r \in ResumeUrls :
                  (CreateApplication(resp'.user, resp'.target, r)
                      /\ ExistingApplications(resp'.user, resp'.target) # {})
                    => (resp'.status = 400 /\ apps' = apps)
      ]_vars

\* a second application for an active job the user already applied to was
\* refused
C9_Witness ==
    /\ resp.op = "create_application" /\ resp.status = 400
    /\ resp.target \in DOMAIN jobs
    /\ jobs[resp.target].status = "active"
    /\ Cardinality(ExistingApplications(resp.user, resp.target)) = 1

\* C10: with two workers, in every interleaving of their existence checks
\* and inserts there is at most one application per (user_id, job_id).
C10_AtMostOneUnderRace == AtMostOnePerPair(apps)

(***************************************************************************)
(* The in-memory rate limiter (app/core/rate_limiter_simple.py)            *)
(***************************************************************************)
MaxHalfHours == 4

\* timedelta(minutes=1), timedelta(hours=1), timedelta(days=1), in minutes
KnownPeriods == {"minute", "hour", "day"}
Window(period) ==
    CASE period = "minute" -> 1
      [] period = "hour" -> 60
      [] period = "day" -> MinutesPerDay

\* the time between two readings of the clock in this model
HalfHour == Window("hour") \div 2

\* limit.split('/') and int(count): the parsed form of "N/period"
Limit(count, period) == [count |-> count, period |-> period]

\* the keys checked, each always with its own limit
KeyLimits ==
    { <<"a", Limit(3, "minute")>>, <<"b", Limit(2, "hour")>>,
      <<"c", Limit(1, "hour")>>, <<"d", Limit(1, "fortnight")>> }

\* (mutant) an entry exactly one window old is still counted
RecentInclusive(req_time, cutoff) == req_time >= cutoff
\* req_time > cutoff
Recent(req_time, cutoff) == req_time > cutoff

\* the list kept for the key: its entries newer than the cutoff, or a new list
Pruned(key, cutoff) ==
    IF key \in DOMAIN requests
      THEN SelectSeq(requests[key], LAMBDA t : Recent(t, cutoff))
    ELSE <<>>

\* the (is_allowed, current_count) pair returned
LimiterResult(key, limit, allowed, count) ==
    [op |-> "is_allowed", key |-> key, limit |-> limit,
     allowed |-> allowed, count |-> count]

limiterFrame ==
    UNCHANGED <<now, users, sessions, refreshStore, blacklist, tokens, issued,
                dbVars, raceVars, companies, matching_results, svcVars>>

\* SimpleRateLimiter.is_allowed(key, limit)
IsAllowed(key, limit) ==
    /\ IF limit.period \notin KnownPeriods
         THEN /\ resp' = LimiterResult(key, limit, TRUE, 0)
              /\ UNCHANGED requests
       ELSE LET kept == Pruned(key, now - Window(limit.period)) IN
            IF Len(kept) < limit.count
              THEN /\ requests' = Put(requests, key, Append(kept, now))
                   /\ resp' = LimiterResult(key, limit, TRUE, 0)
            ELSE /\ requests' = Put(requests, key, kept)
                 /\ resp' = LimiterResult(key, limit, FALSE, Len(kept))
    /\ limiterFrame

\* datetime.utcnow() between two checks
LimiterTick ==
    /\ now < MaxHalfHours * HalfHour
    /\ now' = now + HalfHour
    /\ UNCHANGED <<users, sessions, refreshStore, blacklist, tokens, issued,
                   resp, dbVars, raceVars, extVars>>

InitLimiter ==
    /\ users = EmptyMap
    /\ storeEmpty
    /\ dbIdle

NextLimiter ==
    \/ \E kl \in KeyLimits : IsAllowed(kl[1], kl[2])
    \/ LimiterTick

SpecLimiter == InitLimiter /\ [][NextLimiter]_vars

\* the allowed requests for the key that lie within the period before now
AllowedWithin(key, period) ==
    IF key \in DOMAIN requests
      THEN {i \in 1..Len(requests[key]) : now - requests[key][i] < Window(period)}
    ELSE {}

\* C11: with a limit "N/period" of a supported period and a fixed key, a
\* request is allowed exactly when fewer than N earlier allowed requests of
\* the key lie within the preceding period; an allowed request is recorded
\* at the current time, a rejected one is not recorded, and a key never has
\* more than N recorded requests inside one window.
C11_SlidingWindow ==
    [][\A kl \in KeyLimits :
         (IsAllowed(kl[1], kl[2]) /\ kl[2].period \in KnownPeriods) =>
            /\ resp'.allowed <=>
                 (Cardinality(AllowedWithin(kl[1], kl[2].period)) < kl[2].count)
            /\ resp'.allowed =>
                 /\ Len(requests'[kl[1]]) =
                      Cardinality(AllowedWithin(kl[1], kl[2].period)) + 1
                 /\ requests'[kl[1]][Len(requests'[kl[1]])] = now
            /\ ~resp'.allowed =>
                 /\ Len(requests'[kl[1]]) = kl[2].count
                 /\ \A i \in 1..Len(requests'[kl[1]]) :
                        now - requests'[kl[1]][i] < Window(kl[2].period)
      ]_vars

\* the third request within the hour of the two allowed at 30 and 60 was
\* rejected
C11_Witness ==
    /\ resp.op = "is_allowed"
    /\ resp.key = "b"
    /\ ~resp.allowed
    /\ resp.count = 2
    /\ requests["b"] = <<30, 60>>

(***************************************************************************)
(* SpecThrottle: a burst of logins from one client within one minute.      *)
(* login and refresh_token carry no limiter decorator and never call the   *)
(* limiter, and main.py installs no rate-limit middleware: Login above is  *)
(* the whole handler.  The clock does not advance in this specification.   *)
(***************************************************************************)
MaxBurst == 6        \* token pairs issued under SpecThrottle

\* settings.LOGIN_RATE_LIMIT = "5/minute"
LOGIN_RATE_LIMIT == Limit(5, "minute")

NextThrottle ==
    \E e \in UserIds, ok \in BOOLEAN : issued < MaxBurst /\ Login(e, ok)

SpecThrottle == InitSessions /\ [][NextThrottle]_vars

\* C12: once the client has made the configured number of login requests
\* within the minute (here: that many logins were already served, all at
\* the same clock reading), a further login request is answered 429.
C12_LoginThrottled ==
    [][\A e \in UserIds, ok \in BOOLEAN :
         (issued >= LOGIN_RATE_LIMIT.count /\ Login(e, ok))
            => resp'.status = 429]_vars

(***************************************************************************)
(* SpecOutage: the store operations of RedisClient and SimpleRedisClient   *)
(* called while the backend may fail.  Every body is wrapped in            *)
(* try / except Exception: the except branch returns a value.              *)
(***************************************************************************)
StoreClients == {"redis", "simple"}
StoreWrites ==
    {"blacklist_token", "store_session", "delete_session",
     "store_refresh_token", "delete_refresh_token", "delete_all_user_sessions"}
StoreReads ==
    {"is_token_blacklisted", "get_session", "get_refresh_token_data",
     "get_user_sessions"}
StoreOps == StoreWrites \cup StoreReads

\* the tokens and session ids the operations are called with
StoreTokens == {"t1"}
StoreSessionIds == {"s1", "s2"}

\* (mutant) an error of the backend reads as "blacklisted"
OnBackendErrorClosed(client, op) == TRUE
\* the value returned by the except branch
OnBackendError(client, op) ==
    CASE op = "is_token_blacklisted" -> FALSE
      [] op \in {"get_session", "get_refresh_token_data"} -> None
      [] op = "get_user_sessions" -> EmptyMap
      [] OTHER -> client = "redis"     \* RedisClient: True, simple: False

\* what a call hands back: it returned (raised = FALSE) the value ret
StoreOutcome(client, op, err, raised, ret) ==
    [op |-> op, client |-> client, err |-> err, raised |-> raised, ret |-> ret]

\* the value a read returns when the backend answers
StoreRead(op, uid, sid, t) ==
    CASE op = "is_token_blacklisted" -> IsTokenBlacklisted(t)
      [] op = "get_session" ->
           IF <<uid, sid>> \in Live(sessions)
             THEN sessions[<<uid, sid>>].value ELSE None
      [] op = "get_refresh_token_data" ->
           IF HasRefreshTokenData(t) THEN refreshStore[t].value ELSE None
      [] op = "get_user_sessions" -> GetUserSessions(uid)

\* one call of a store operation; err: the backend raises inside it
StoreCall(client, op, uid, sid, t, err) ==
    /\ IF err
         THEN /\ resp' = StoreOutcome(client, op, TRUE, FALSE,
                                      OnBackendError(client, op))
              /\ UNCHANGED <<sessions, refreshStore, blacklist>>
       ELSE IF op \in StoreReads
         THEN /\ resp' = StoreOutcome(client, op, FALSE, FALSE,
                                      StoreRead(op, uid, sid, t))
              /\ UNCHANGED <<sessions, refreshStore, blacklist>>
       ELSE /\ resp' = StoreOutcome(client, op, FALSE, FALSE, TRUE)
            /\ blacklist' =
                 IF op = "blacklist_token"
                   THEN BlacklistToken(blacklist, t, ACCESS_TOKEN_EXPIRE_MINUTES)
                   ELSE blacklist
            /\ sessions' =
                 CASE op = "store_session" ->
                        StoreSession(sessions, <<uid, sid>>,
                            ActivitySessionData(uid), IDLE_TIMEOUT_MINUTES)
                   [] op = "delete_session" -> DeleteSession(sessions, <<uid, sid>>)
                   [] op = "delete_all_user_sessions" ->
                        DeleteAllUserSessions(sessions, uid)
                   [] OTHER -> sessions
            /\ refreshStore' =
                 CASE op = "store_refresh_token" ->
                        StoreRefreshToken(refreshStore, t, uid,
                            REFRESH_TOKEN_EXPIRE_DAYS * MinutesPerDay)
                   [] op = "delete_refresh_token" -> DeleteRefreshToken(refreshStore, t)
                   [] OTHER -> refreshStore
    /\ UNCHANGED <<now, users, tokens, issued, dbVars, raceVars, extVars>>

NextOutage ==
    \E client \in StoreClients, op \in StoreOps, uid \in UserIds,
          sid \in StoreSessionIds, t \in StoreTokens, err \in BOOLEAN :
            StoreCall(client, op, uid, sid, t, err)

SpecOutage == InitSessions /\ [][NextOutage]_vars

MaxDevices == 3      \* token pairs issued under SpecDevices

\* logout_all_devices; get_current_user has stored the caller's session
\* activity before the handler body runs
LogoutAll(cookie, bearer) ==
    /\ IF ~CurrentUserResolves(cookie, bearer)
         THEN /\ resp' = Answer("logout_all", 401, None, None, {})
              /\ UNCHANGED sessions
       ELSE LET uid == RequestToken(cookie, bearer).sub
            IN  /\ sessions' =
                     DeleteAllUserSessions(TouchSession(cookie, bearer), uid)
                /\ resp' = Answer("logout_all", 200, uid, None, {})
    /\ UNCHANGED <<now, users, refreshStore, blacklist, tokens, issued,
                   dbVars, raceVars, extVars>>

\* one entry of the listing, built with session.get(...)
FormattedSession(session) ==
    [session_id |-> Get(session, "session_id"),
     created_at |-> Get(session, "created_at"),
     last_activity |-> Get(session, "last_activity"),
     client_info |-> Get(session, "client_info"),
     is_current |-> FALSE]

\* get_active_sessions: the body holds one entry per live session of the
\* caller; the code returns the entries as a list, the store keys are kept
\* here to tell which stored session an entry was built from
GetActiveSessions(cookie, bearer) ==
    /\ IF ~CurrentUserResolves(cookie, bearer)
         THEN /\ resp' = Answer("get_active_sessions", 401, None, None, {})
              /\ UNCHANGED sessions
       ELSE LET uid == RequestToken(cookie, bearer).sub
                touched == TouchSession(cookie, bearer)
                keys == UserSessionKeys(touched, uid)
            IN  /\ sessions' = touched
                /\ resp' = Answer("get_active_sessions", 200, uid, None,
                               [k \in keys |-> FormattedSession(touched[k].value)])
    /\ UNCHANGED <<now, users, refreshStore, blacklist, tokens, issued,
                   dbVars, raceVars, extVars>>

\* revoke_session: delete_session("<user id>:<session_id>")
RevokeSession(cookie, bearer, session_id) ==
    /\ IF ~CurrentUserResolves(cookie, bearer)
         THEN /\ resp' = Answer("revoke_session", 401, None, None, {})
              /\ UNCHANGED sessions
       ELSE LET uid == RequestToken(cookie, bearer).sub
            IN  /\ sessions' = DeleteSession(TouchSession(cookie, bearer),
                                             <<uid, session_id>>)
                /\ resp' = Answer("revoke_session", 200, uid, session_id, {})
    /\ UNCHANGED <<now, users, refreshStore, blacklist, tokens, issued,
                   dbVars, raceVars, extVars>>

\* the session ids a client can put in the path: one it was given in a
\* token, or one read from a listing
RequestSessionIds == {t.session_id : t \in SessionCookies} \cup {None}

NextDevices ==
    \/ \E e \in UserIds, ok \in BOOLEAN : issued < MaxDevices /\ Login(e, ok)
    \/ \E c \in SessionCookies : \E b \in Bearers(c) : LogoutAll(c, b)
    \/ \E c \in SessionCookies : \E b \in Bearers(c) : GetActiveSessions(c, b)
    \/ \E c \in SessionCookies : \E b \in Bearers(c) :
         \E sid \in RequestSessionIds : RevokeSession(c, b, sid)

SpecDevices == InitSessions /\ [][NextDevices]_vars

\* C14: a logout-all by user U, whichever of U's sessions the request
\* carries, leaves no session record of U in the store and leaves every
\* session record of every other user as it was.
C14_LogoutAllClearsUser ==
    [][\A c \in SessionCookies : \A b \in Bearers(c) :
         (LogoutAll(c, b) /\ CurrentUserResolves(c, b)) =>
            LET uid == RequestToken(c, b).sub
            IN  /\ \A k \in DOMAIN sessions' : k[1] # uid
                /\ \A k \in DOMAIN sessions :
                     k[1] # uid => (k \in DOMAIN sessions' /\ sessions'[k] = sessions[k])
                /\ DOMAIN sessions' \subseteq DOMAIN sessions
      ]_vars

\* u1, who logged in twice, has logged out everywhere while u2's session
\* is still stored
C14_Witness ==
    /\ resp.op = "logout_all"
    /\ resp.status = 200
    /\ resp.user = "u1"
    /\ Cardinality({t \in tokens : t.type = "access" /\ t.sub = "u1"}) = 2
    /\ UserSessionKeys(sessions, "u2") # {}
    /\ UserSessionKeys(sessions, "u1") = {}

\* C15: every entry of the session listing carries the session id under
\* which the session is stored.
C15_ListingCarriesIds ==
    (resp.op = "get_active_sessions" /\ resp.status = 200) =>
        \A k \in DOMAIN resp.body : resp.body[k].session_id = k[2]

\* C16: a login with the right password for a registered, active user is
\* answered 200 with an access and a refresh token and stores one session
\* record and one refresh-token record; a login with a wrong password or an
\* unknown email is answered 401 and a login of an inactive user 400, both
\* storing nothing and handing out no token.
C16_LoginOutcomes ==
    [][\A e \in UserIds, ok \in BOOLEAN :
         Login(e, ok) =>
            IF ~users[e].registered \/ ~ok
              THEN /\ resp'.status = 401
                   /\ resp'.access_token = NoToken /\ resp'.refresh_token = NoToken
                   /\ UNCHANGED <<sessions, refreshStore>>
            ELSE IF ~users[e].is_active
              THEN /\ resp'.status = 400
                   /\ resp'.access_token = NoToken /\ resp'.refresh_token = NoToken
                   /\ UNCHANGED <<sessions, refreshStore>>
            ELSE /\ resp'.status = 200
                 /\ resp'.access_token # NoToken /\ resp'.refresh_token # NoToken
                 /\ Cardinality(DOMAIN sessions' \ DOMAIN sessions) = 1
                 /\ Cardinality(DOMAIN refreshStore' \ DOMAIN refreshStore) = 1
      ]_vars

(***************************************************************************)
(* SpecSignup: signups with an email and a username into an empty table    *)
(***************************************************************************)
\* the keys of the Token response model, and the attributes the User
\* response model reads from the users row
TokenResponseFields ==
    {"access_token", "refresh_token", "token_type", "user", "session_id"}
       \cap {"access_token", "token_type", "user"}
UserResponseFields ==
    {"id", "email", "username", "full_name", "hashed_password", "role",
     "company_id", "is_active", "created_at", "updated_at", "company",
     "jobs", "applications"}
       \cap {"email", "username", "full_name", "role", "company_id", "id",
             "is_active", "created_at", "updated_at", "company"}

InitSignup ==
    /\ users = [u \in Accounts |-> NoUser]
    /\ storeEmpty
    /\ dbIdle

NextSignup ==
    \E e \in Accounts, n \in Accounts, r \in Roles, c \in CompanyOpt :
        issued < MaxIssue /\ Signup(e, n, r, c)

SpecSignup == InitSignup /\ [][NextSignup]_vars

\* C17: a signup whose email or whose username belongs to a registered
\* user, or whose role is recruiter with no company_id, is answered 400 and
\* leaves the users table, the session store and the refresh-token store as
\* they were; the response of a successful signup has no password field.
C17_SignupRejections ==
    [][\A e \in Accounts, n \in Accounts, r \in Roles, c \in CompanyOpt :
         Signup(e, n, r, c) =>
            /\ ( \/ \E x \in Accounts :
                      users[x].registered /\ (x = e \/ users[x].username = n)
                 \/ (r = "recruiter" /\ c = None) )
                 => /\ resp'.status = 400
                    /\ UNCHANGED <<users, sessions, refreshStore>>
            /\ resp'.status = 200 =>
                 {"password", "hashed_password"}
                     \cap (TokenResponseFields \cup UserResponseFields) = {}
      ]_vars

\* a signup was rejected while the only registered user has a username
\* that is another account's email
C17_Witness ==
    /\ resp.op = "signup"
    /\ resp.status = 400
    /\ users["u0"].registered /\ users["u0"].username = "u1"
    /\ ~users["u1"].registered

(***************************************************************************)
(* Companies (app/api/v1/endpoints/companies.py)                           *)
(***************************************************************************)
\* delete_company.  db.delete(company) on a company whose jobs relationship
\* is not empty nulls jobs.company_id (NOT NULL, foreign key): the commit
\* raises IntegrityError, which nothing handles
DeleteCompany(caller, company_id) ==
    /\ IF AdminUserStatus(caller) # 200
         THEN /\ resp' = Answer("delete_company", AdminUserStatus(caller),
                                caller, company_id, {})
              /\ UNCHANGED companies
       ELSE IF company_id \notin companies
         THEN /\ resp' = Answer("delete_company", 404, caller, company_id, {})
              /\ UNCHANGED companies
       ELSE IF \E u \in DOMAIN users :
                   users[u].registered /\ users[u].company_id = company_id
         THEN /\ resp' = Answer("delete_company", 400, caller, company_id, {})
              /\ UNCHANGED companies
       ELSE IF \E j \in DOMAIN jobs : jobs[j].company_id = company_id
         THEN /\ resp' = Answer("delete_company", 500, caller, company_id, {})
              /\ UNCHANGED companies
       ELSE /\ companies' = companies \ {company_id}
            /\ resp' = Answer("delete_company", 200, caller, company_id,
                              {company_id})
    /\ UNCHANGED <<authVars, dbVars, raceVars, requests, matching_results,
                   svcVars>>

\* an admin and a recruiter of company cX; every company row present
InitCompanies ==
    /\ users = [u \in Accounts |->
                   IF u = "u0" THEN UserRow(u, "admin", None, TRUE)
                   ELSE UserRow(u, "recruiter", "cX", TRUE)]
    /\ storeEmpty
    /\ dbIdle

\* updates name a company that exists (users.company_id is a foreign key)
NextCompanies ==
    \/ \E u \in Accounts : nextJob < MaxJobs /\ CreateJob(u)
    \/ \E u \in Accounts : \E t \in Accounts : \E d \in UpdateData :
          Get(d, "company_id") \in companies \cup {None} /\ UpdateUser(u, t, d)
    \/ \E u \in Accounts : \E c \in Companies : DeleteCompany(u, c)

SpecCompanies == InitCompanies /\ [][NextCompanies]_vars

\* C18: deleting an existing company that a user still references is
\* answered 400 and the company row stays; deleting an existing company
\* that no user references is answered 200 and the row is gone.
C18_DeleteCompany ==
    [][\A caller \in Accounts, c \in Companies :
         (DeleteCompany(caller, c) /\ AdminUserStatus(caller) = 200
            /\ c \in companies) =>
            IF \E u \in Accounts : users[u].registered /\ users[u].company_id = c
              THEN resp'.status = 400 /\ c \in companies'
            ELSE resp'.status = 200 /\ c \notin companies'
      ]_vars

(***************************************************************************)
(* Manual matching (app/services/ai_matching.py, endpoints/matching.py)    *)
(***************************************************************************)
MaxFiles == 3        \* resume files per batch

\* an uploaded file: its name and what its bytes are
\*   "pdf"     a PDF the parser reads
\*   "corrupt" bytes with a PDF header on which the parser raises
\*   "text"    bytes without a PDF header
\*   "empty"   no bytes
FileNames == {"a.pdf", "b.pdf"}
FileBytes == {"pdf", "corrupt", "text", "empty"}
ResumeFile(name, bytes) == [name |-> name, bytes |-> bytes]
ResumeFiles == {ResumeFile(n, b) : n \in FileNames, b \in FileBytes}
Batches == UNION {[1..n -> ResumeFiles] : n \in 0..MaxFiles}

\* _validate_pdf_bytes
ValidatePdfBytes(bytes) ==
    IF bytes = "empty" THEN FALSE
    ELSE IF bytes \notin {"pdf", "corrupt"} THEN FALSE
    ELSE TRUE

\* the loop body of process_resume_files: the records file f adds
ResumeRecords(f) ==
    IF ~ValidatePdfBytes(f.bytes)
      THEN <<>>                                   \* logged, then "continue"
    ELSE IF f.bytes = "corrupt"
      THEN << [filename |-> f.name, error |-> "error"] >>
    ELSE << [filename |-> f.name, text |-> "text", skills |-> {}] >>

\* process_resume_files(resume_files, filenames)
RECURSIVE ProcessResumeFiles(_)
ProcessResumeFiles(files) ==
    IF files = <<>> THEN <<>>
    ELSE ResumeRecords(Head(files)) \o ProcessResumeFiles(Tail(files))

\* the keys of the dict match_resumes_to_job returns, and of its
\* 'job_description' entry
MatchResultKeys == {"results", "summary", "job_description", "processed_at"}
MatchJobDescriptionKeys == {"skills", "skills_count", "text_length"}
\* the fields MatchingResultResponse requires besides matching_result_id
MatchingResponseRequired ==
    {"job_description", "summary", "results", "processing_info"}

\* match_resumes_to_job returns (does not raise)
MatchComputes(jd, files) ==
    /\ jd # None
    /\ \E i \in 1..Len(ProcessResumeFiles(files)) :
          "error" \notin DOMAIN ProcessResumeFiles(files)[i]

matchFrame ==
    UNCHANGED <<authVars, dbVars, raceVars, requests, companies, svcVars>>

\* process_resume_files called on a batch
ProcessBatch(files) ==
    /\ resp' = Answer("process_resume_files", 0, None, files,
                      ProcessResumeFiles(files))
    /\ UNCHANGED matching_results
    /\ matchFrame

\* match_resume.  The whole body runs inside try / except Exception, which
\* turns every exception (HTTPException included) into a 500
MatchResume(u, jd, files, save_results) ==
    /\ IF RecruiterUserStatus(u) # 200
         THEN /\ resp' = Answer("match_resume", RecruiterUserStatus(u), u, None, {})
              /\ UNCHANGED matching_results
       ELSE IF ~MatchComputes(jd, files)
         THEN /\ resp' = Answer("match_resume", 500, u, None, {})
              /\ UNCHANGED matching_results
       ELSE IF save_results /\ "text" \notin MatchJobDescriptionKeys
         THEN \* result['job_description']['text']: KeyError
              /\ resp' = Answer("match_resume", 500, u, None, {})
              /\ UNCHANGED matching_results
       ELSE LET id == Cardinality(matching_results) + 1
                saved == IF save_results
                           THEN matching_results \cup {[id |-> id, user_id |-> u]}
                           ELSE matching_results
            IN  /\ matching_results' = saved
                /\ IF ~(MatchingResponseRequired \subseteq MatchResultKeys)
                     THEN \* MatchingResultResponse(**result): ValidationError
                          resp' = Answer("match_resume", 500, u, None, {})
                   ELSE resp' = Answer("match_resume", 200, u,
                                       IF save_results THEN id ELSE None, {})
    /\ matchFrame

Recruiters == {"rx", "c1"}
JobDescriptions == {None, "text"}

NextMatching ==
    \/ \E files \in Batches : ProcessBatch(files)
    \/ \E u \in Recruiters, jd \in JobDescriptions, files \in Batches,
          save_results \in BOOLEAN : MatchResume(u, jd, files, save_results)

InitMatching == dbStart /\ dbIdle

SpecMatching == InitMatching /\ [][NextMatching]_vars

\* C19: process_resume_files returns one record per input file, in order,
\* each carrying its file's name; the record of a file that fails
\* validation or whose processing fails is an error record.
C19_OneRecordPerFile ==
    resp.op = "process_resume_files" =>
        /\ Len(resp.body) = Len(resp.target)
        /\ \A i \in 1..Len(resp.target) :
              /\ resp.body[i].filename = resp.target[i].name
              /\ resp.target[i].bytes # "pdf" => "error" \in DOMAIN resp.body[i]

\* C20: a manual match whose matching run succeeds persists one
\* MatchingResult row and returns its id when save_results is set, and
\* persists no row and returns no id when it is not.
C20_SavedOncePerRun ==
    [][\A u \in Recruiters, jd \in JobDescriptions, files \in Batches,
          save_results \in BOOLEAN :
         (MatchResume(u, jd, files, save_results)
            /\ RecruiterUserStatus(u) = 200 /\ MatchComputes(jd, files)) =>
            IF save_results
              THEN /\ Cardinality(matching_results' \ matching_results) = 1
                   /\ resp'.status = 200
                   /\ \E r \in matching_results' \ matching_results :
                         resp'.target = r.id
            ELSE /\ matching_results' = matching_results
                 /\ resp'.target = None
      ]_vars

\* C21: a manual-match request of a recruiter that carries neither a
\* job-description text nor a job-description file is answered 400 and
\* persists no MatchingResult row.
C21_MissingInputRejected ==
    [][\A u \in Recruiters, files \in Batches, save_results \in BOOLEAN :
         (MatchResume(u, None, files, save_results)
            /\ RecruiterUserStatus(u) = 200) =>
            /\ resp'.status = 400
            /\ matching_results' = matching_results
      ]_vars


(***************************************************************************)
(* SimilarityEngine.rank_resumes_by_similarity                             *)
(* (app/services/similarity.py).  Scores are kept in ten-thousandths, the  *)
(* precision the method rounds its scores to.                              *)
(***************************************************************************)
MaxResumes == 3

\* round(score, 4): one unit is 0.0001
Scale == 10000

\* the default of the skills_weight parameter, 0.3
SkillsWeight == 3000

svcFrame ==
    UNCHANGED <<authVars, resp, dbVars, raceVars, requests, companies,
                matching_results>>

\* what the engine finds in one resume text: whether its embedding can be
\* computed, the clamped text similarity, whether both the resume and the
\* job description show a known skill, and the skills similarity if so
ResumeTexts ==
    {r \in [embeds : BOOLEAN, text_similarity : {0, Scale},
            skills_found : BOOLEAN, skills_similarity : {0, Scale}] :
        /\ ~r.embeds => (r.text_similarity = 0 /\ ~r.skills_found)
        /\ ~r.skills_found => r.skills_similarity = 0}

ResumeLists ==
    UNION {[1..n -> ResumeTexts] : n \in 0..MaxResumes}

\* lines 384-451: the entry of the resume at position idx (0-based); the
\* except branch turns a failure into a zero-scored entry carrying 'error'
RankEntry(idx, r, include_skills) ==
    IF ~r.embeds
    THEN [rank |-> 0, resume_index |-> idx, text_similarity |-> 0,
          final_score |-> 0, error |-> TRUE]
    ELSE [rank |-> 0, resume_index |-> idx,
          text_similarity |-> r.text_similarity,
          final_score |->
              IF include_skills /\ r.skills_found
              THEN (r.text_similarity * (Scale - SkillsWeight)
                      + r.skills_similarity * SkillsWeight) \div Scale
              ELSE r.text_similarity,
          error |-> FALSE]

\* an ascending sort, the order list.sort gives without reverse=True
RECURSIVE SortByFinalScoreAscending(_)
SortByFinalScoreAscending(results) ==
    IF results = <<>> THEN <<>>
    ELSE LET h == Head(results)
             rest == SortByFinalScoreAscending(Tail(results))
         IN  SelectSeq(rest, LAMBDA x : x.final_score < h.final_score)
               \o <<h>>
               \o SelectSeq(rest, LAMBDA x : x.final_score >= h.final_score)

\* line 454: results.sort(key=final_score, reverse=True), a stable sort:
\* entries of equal score keep their input order
RECURSIVE SortByFinalScore(_)
SortByFinalScore(results) ==
    IF results = <<>> THEN <<>>
    ELSE LET h == Head(results)
             rest == SortByFinalScore(Tail(results))
         IN  SelectSeq(rest, LAMBDA x : x.final_score > h.final_score)
               \o <<h>>
               \o SelectSeq(rest, LAMBDA x : x.final_score <= h.final_score)

\* lines 371-465
rank_resumes_by_similarity(job_description, jd_embeds, resume_texts, skills) ==
    IF job_description = None \/ resume_texts = <<>>
    THEN <<>>
    ELSE IF ~jd_embeds
    THEN <<>>
    ELSE LET results == [i \in DOMAIN resume_texts |->
                            RankEntry(i - 1, resume_texts[i], skills)]
             sorted == SortByFinalScore(results)
         IN  [i \in DOMAIN sorted |-> [sorted[i] EXCEPT !.rank = i]]

\* the caller takes the result; the service is ready for the next call
ServiceReturn ==
    /\ svc.op # "none"
    /\ svc' = [op |-> "none"]
    /\ UNCHANGED embeddings_cache
    /\ svcFrame

RankResumes(job_description, jd_embeds, resume_texts, include_skills) ==
    /\ svc.op = "none"
    /\ svc' = [op |-> "rank", job_description |-> job_description,
               jd_embeds |-> jd_embeds, resume_texts |-> resume_texts,
               result |-> rank_resumes_by_similarity(job_description,
                              jd_embeds, resume_texts, include_skills)]
    /\ UNCHANGED embeddings_cache
    /\ svcFrame

InitRanking == dbStart /\ dbIdle

NextRanking ==
    \/ ServiceReturn
    \/ \E job_description \in JobDescriptions, jd_embeds \in BOOLEAN,
       resume_texts \in ResumeLists, include_skills \in BOOLEAN :
        RankResumes(job_description, jd_embeds, resume_texts, include_skills)

SpecRanking == InitRanking /\ [][NextRanking]_vars

\* the ranking contract of one call: one entry per resume, failed resumes
\* as zero-scored error entries, non-increasing final scores, ranks 1..n
RankingContract(resume_texts, result) ==
    /\ Len(result) = Len(resume_texts)
    /\ {result[i].resume_index : i \in DOMAIN result}
         = {i - 1 : i \in DOMAIN resume_texts}
    /\ \A i \in DOMAIN result :
          /\ result[i].rank = i
          /\ ~resume_texts[result[i].resume_index + 1].embeds
               => (result[i].error /\ result[i].final_score = 0)
          /\ i < Len(result)
               => result[i].final_score >= result[i + 1].final_score

\* C22 as stated: rank_resumes_by_similarity returns one entry per input
\* resume (a failed resume as a zero-scored error entry), ordered by
\* non-increasing final score, with ranks 1, 2, ..., n in that order.
C22_RankingComplete ==
    svc.op = "rank" => RankingContract(svc.resume_texts, svc.result)

\* C22 as amended: the same, for a call whose job description is non-empty
\* and whose embedding is computed.
C22_RankingOfUsableJob ==
    (svc.op = "rank" /\ svc.job_description # None /\ svc.jd_embeds)
        => RankingContract(svc.resume_texts, svc.result)

C22_Witness ==
    /\ svc.op = "rank" /\ svc.job_description # None /\ svc.jd_embeds
    /\ Len(svc.result) = 3
    /\ svc.result[1].resume_index = 2
    /\ svc.result[3].error
    /\ svc.result[1].final_score > svc.result[2].final_score
    /\ svc.result[2].final_score > svc.result[3].final_score


(***************************************************************************)
(* AIMatchingService._get_match_status (app/services/ai_matching.py).      *)
(* score and threshold are Python floats, IEEE-754 doubles.  A double near *)
(* the decimal k/100 is kept exactly as the pair [k, e] that stands for    *)
(* (k * 2^60 + e) / (100 * 2^60); e is the rounding error, far below one   *)
(* hundredth.                                                              *)
(***************************************************************************)

\* the decimals 0.00, 0.01, ..., 1.00, in hundredths
Cents == 0..(10 * 10)

\* 2^n modulo m
RECURSIVE PowMod(_, _)
PowMod(n, m) == IF n = 0 THEN 1 % m ELSE (2 * PowMod(n - 1, m)) % m

\* the binade 2^(-j) <= x < 2^(1-j) of a positive value x = [k, e]
RECURSIVE BinadeFrom(_, _, _)
BinadeFrom(k, e, j) ==
    IF k * 2^j > 100 \/ (k * 2^j = 100 /\ e >= 0) THEN j
    ELSE BinadeFrom(k, e, j + 1)

\* the spacing of the doubles around [k, e], in units of 2^-60: a double
\* has 53 significant bits
Ulp(k, e) == 2^(8 - BinadeFrom(k, e, 0))

\* round-to-nearest, ties-to-even, of the exact value [k, e] onto the
\* multiples of u: the error term of the double the operation returns
RoundToGrid(k, e, u) ==
    LET v == (k * PowMod(60, 200 * u) + e) % (200 * u)
        w == v % (100 * u)
        odd == v >= 100 * u
    IN  IF w = 0 THEN e
        ELSE IF 2 * w < 100 * u THEN e - w
        ELSE IF 2 * w > 100 * u THEN e + (100 * u - w)
        ELSE IF odd THEN e + (100 * u - w) ELSE e - w

\* the double a decimal literal, a parsed form value or round(x, 4) gives
ToDouble(k) ==
    IF k = 0 THEN [k |-> 0, e |-> 0]
    ELSE [k |-> k, e |-> RoundToGrid(k, 0, Ulp(k, 0))]

\* a - b as the float subtraction computes it: the exact difference rounded
\* to the nearest double (a difference that is zero or negative keeps its
\* sign, which is all a comparison with a score in [0, 1] looks at)
FloatSub(a, b) ==
    LET k == a.k - b.k
        e == a.e - b.e
    IN  IF k <= 0 THEN [k |-> k, e |-> e]
        ELSE [k |-> k, e |-> RoundToGrid(k, e, Ulp(k, e))]

\* a >= b
FloatGeq(a, b) == a.k > b.k \/ (a.k = b.k /\ a.e >= b.e)

\* lines 280-285
get_match_status(score, threshold) ==
    IF FloatGeq(score, threshold) THEN "Strong Match"
    ELSE IF FloatGeq(score, FloatSub(threshold, ToDouble(10)))
    THEN "Moderate Match"
    ELSE "Weak Match"

\* line 190, for one ranked resume
GetMatchStatus(score, threshold) ==
    /\ svc.op = "none"
    /\ svc' = [op |-> "status", score |-> score, threshold |-> threshold,
               match_status |-> get_match_status(ToDouble(score),
                                                 ToDouble(threshold))]
    /\ UNCHANGED embeddings_cache
    /\ svcFrame

InitStatus == dbStart /\ dbIdle

NextStatus ==
    \/ ServiceReturn
    \/ \E score \in Cents, threshold \in Cents :
          GetMatchStatus(score, threshold)

SpecStatus == InitStatus /\ [][NextStatus]_vars

\* C23: the match status is Strong when score >= threshold, Moderate when
\* threshold - 0.1 <= score < threshold, Weak otherwise, both boundaries
\* inclusive (score and threshold compared as the decimals they are).
C23_StatusBands ==
    svc.op = "status" =>
        svc.match_status =
            IF svc.score >= svc.threshold THEN "Strong Match"
            ELSE IF svc.score >= svc.threshold - 10 THEN "Moderate Match"
            ELSE "Weak Match"


(***************************************************************************)
(* SkillExtractor.calculate_skills_similarity                              *)
(* (app/services/skill_extractor.py).  A similarity is kept as the exact   *)
(* fraction [num, den]; weights are in tenths.                             *)
(***************************************************************************)

\* part of the taxonomy: the canonical skill names (the keys) of two
\* categories, with the categories' weights of lines 345-354
skills_database ==
    [programming_languages |-> {"Python", "Java"},
     databases |-> {"PostgreSQL"}]

category_weights == [programming_languages |-> 10, databases |-> 8]

\* skills a caller may pass: taxonomy names, a synonym that is no key of
\* the taxonomy ("python") and a skill the taxonomy does not know
SkillNames == {"Python", "Java", "PostgreSQL", "python", "Welding"}

RECURSIVE SumWeights(_, _, _, _)
\* the sum over the categories cs of per(c, skills1, skills2)
SumWeights(cs, per(_, _, _), skills1, skills2) ==
    IF cs = {} THEN 0
    ELSE LET c == CHOOSE x \in cs : TRUE
         IN  per(c, skills1, skills2)
               + SumWeights(cs \ {c}, per, skills1, skills2)

\* lines 363-366: the categories either list has a skill of
CategoryPresent(c, skills1, skills2) ==
    (skills1 \cup skills2) \cap skills_database[c] # {}

\* lines 368-373: the category's similarity times its weight, in halves (a
\* category of this taxonomy part has at most two skills)
CategoryScore(c, skills1, skills2) ==
    LET cat_skills1 == skills1 \cap skills_database[c]
        cat_skills2 == skills2 \cap skills_database[c]
    IN  IF cat_skills1 # {} /\ cat_skills2 # {}
        THEN ((2 * Cardinality(cat_skills1 \cap cat_skills2))
                 \div Cardinality(cat_skills1 \cup cat_skills2))
               * category_weights[c]
        ELSE 0

CategoryWeight(c, skills1, skills2) ==
    IF CategoryPresent(c, skills1, skills2) THEN category_weights[c] ELSE 0

\* lines 343-383, as the fraction weighted_score / total_weight
calculate_weighted_similarity(skills1, skills2) ==
    LET cats == DOMAIN skills_database
        total_weight == SumWeights(cats, CategoryWeight, skills1, skills2)
        weighted_score == SumWeights(cats, CategoryScore, skills1, skills2)
    IN  IF total_weight = 0 THEN [num |-> 0, den |-> 1]
        ELSE [num |-> weighted_score, den |-> 2 * total_weight]

\* lines 303-330
calculate_skills_similarity(skills1, skills2) ==
    IF skills1 = {} \/ skills2 = {} THEN [num |-> 0, den |-> 1]
    ELSE LET intersection == Cardinality(skills1 \cap skills2)
             union == Cardinality(skills1 \cup skills2)
             weighted == calculate_weighted_similarity(skills1, skills2)
             \* jaccard * 0.6 + weighted * 0.4
             num == 6 * intersection * weighted.den + 4 * weighted.num * union
             den == 10 * union * weighted.den
         IN  IF num > den THEN [num |-> den, den |-> den]
             ELSE [num |-> num, den |-> den]

SkillsSimilarity(skills1, skills2) ==
    /\ svc.op = "none"
    /\ svc' = [op |-> "skills", skills1 |-> skills1, skills2 |-> skills2,
               similarity |-> calculate_skills_similarity(skills1, skills2)]
    /\ UNCHANGED embeddings_cache
    /\ svcFrame

InitSkills == dbStart /\ dbIdle

NextSkills ==
    \/ ServiceReturn
    \/ \E skills1 \in SUBSET SkillNames, skills2 \in SUBSET SkillNames :
          SkillsSimilarity(skills1, skills2)

SpecSkills == InitSkills /\ [][NextSkills]_vars

\* C24: calculate_skills_similarity(S, S) is 1.0 for every non-empty skill
\* set S, whether or not its skills belong to the taxonomy, and
\* calculate_skills_similarity(S, {}) is 0.0.
C24_IdenticalSetsScoreOne ==
    svc.op = "skills" =>
        /\ (svc.skills1 = svc.skills2 /\ svc.skills1 # {})
              => svc.similarity.num = svc.similarity.den
        /\ svc.skills2 = {} => svc.similarity.num = 0


\* C25: PUT /users/me leaves the caller's role and company_id as they were;
\* the two fields change only through the admin-only update of a user.
C25_SelfUpdateKeepsRole ==
    [][ \A u \in Accounts :
          (users[u].registered /\ users'[u].registered
             /\ (users'[u].role # users[u].role
                   \/ users'[u].company_id # users[u].company_id))
              => /\ resp'.op = "update_user"
                 /\ resp'.status = 200
                 /\ AdminUserStatus(resp'.user) = 200
      ]_vars


\* C26: once revoke-session or logout-all has deleted a session record, a
\* later request that presents the access token issued for that session is
\* answered 401.  (Under SpecDevices nothing else removes a session record.)
C26_DeletedSessionRejected ==
    [][\A c \in SessionCookies : \A b \in Bearers(c) :
         LET t == RequestToken(c, b)
         IN  (/\ GetActiveSessions(c, b)
              /\ t \in tokens
              /\ <<t.sub, t.session_id>> \notin DOMAIN sessions)
                 => resp'.status = 401
      ]_vars


(***************************************************************************)
(* SpecCredentials: protected requests that carry any token the client     *)
(* holds, a refresh token included, as cookie or as bearer header          *)
(***************************************************************************)
\* the header is read only when the session cookie is absent
AnyBearers(cookie) == IF cookie = NoToken THEN Presentable ELSE {NoToken}

InitCredentials == InitSessions

NextCredentials ==
    \/ \E e \in UserIds, ok \in BOOLEAN : issued < MaxIssue /\ Login(e, ok)
    \/ \E c \in Presentable : \E b \in AnyBearers(c) : GetCurrentUserInfo(c, b)
    \/ Tick

SpecCredentials == InitCredentials /\ [][NextCredentials]_vars

\* C27: a refresh token is never accepted as an access credential: a
\* request whose session cookie or bearer header carries a token of type
\* refresh is answered 401.
C27_RefreshTokenNoCredential ==
    [][\A c \in Presentable : \A b \in AnyBearers(c) :
         (GetCurrentUserInfo(c, b) /\ RequestToken(c, b).type = "refresh")
            => resp'.status = 401
      ]_vars


\* C28: an application's status is changed only by an admin or by a
\* recruiter of the company that owns the application's job; an update by
\* the applicant or by any other user leaves the status as it was.
C28_StatusChangedByStaffOnly ==
    [][\A a \in apps : \A b \in apps' :
         (a.id = b.id /\ a.status # b.status) =>
            LET u == resp'.user
            IN  /\ resp'.op = "update_application"
                /\ \/ users[u].role = "admin"
                   \/ /\ users[u].role = "recruiter"
                      /\ users[u].company_id # None
                      /\ users[u].company_id = JobOf(a).company_id
      ]_vars


(***************************************************************************)
(* SimilarityEngine._get_embedding and _cache_embedding                    *)
(* (app/services/similarity.py).  The cache is a dict: a sequence of       *)
(* <<key, embedding>> entries in insertion order.  A text is named by its  *)
(* cache key, the n-th text the engine embeds by n; the n-th embedding    *)
(* the model computes by n.                                                *)
(***************************************************************************)
MaxEncodes == 1003

\* self._cache_size_limit
cache_size_limit == 1000

CacheKeys(cache) == {cache[i][1] : i \in DOMAIN cache}

\* the number of embeddings computed so far, and of texts embedded so far
Encoded == IF svc.op = "embedding" THEN svc.encoded ELSE 0
TextsMet == IF svc.op = "embedding" THEN svc.texts ELSE 0

\* lines 208: cache[key] = embedding, which keeps the place of a key the
\* dict already holds and appends a new key
CacheAssign(cache, key, embedding) ==
    IF key \in CacheKeys(cache)
    THEN [i \in DOMAIN cache |->
              IF cache[i][1] = key THEN <<key, embedding>> ELSE cache[i]]
    ELSE Append(cache, <<key, embedding>>)

\* the method without the size check of lines 211-214
CacheEmbeddingUnbounded(cache, key, embedding) ==
    CacheAssign(cache, key, embedding)

\* lines 207-214: next(iter(cache)) is the first key in insertion order
CacheEmbedding(cache, key, embedding) ==
    LET added == CacheAssign(cache, key, embedding)
    IN  IF Len(added) > cache_size_limit THEN Tail(added) ELSE added

\* lines 180-196: a hit returns the cached embedding; a miss computes the
\* embedding and caches it, or raises when the model fails
GetEmbedding(text, encodes) ==
    /\ Encoded < MaxEncodes
    /\ IF text \in CacheKeys(embeddings_cache)
         THEN /\ svc' = [op |-> "embedding", outcome |-> "hit",
                         encoded |-> Encoded, texts |-> TextsMet]
              /\ UNCHANGED embeddings_cache
       ELSE IF ~encodes
         THEN /\ svc' = [op |-> "embedding", outcome |-> "raised",
                         encoded |-> Encoded, texts |-> TextsMet]
              /\ UNCHANGED embeddings_cache
       ELSE /\ svc' = [op |-> "embedding", outcome |-> "computed",
                       encoded |-> Encoded + 1,
                       texts |-> IF text > TextsMet THEN text ELSE TextsMet]
            /\ embeddings_cache' =
                  CacheEmbedding(embeddings_cache, text, Encoded + 1)
    /\ svcFrame

\* the texts a request can bring: the oldest and the newest cached one, one
\* met before that is cached no longer, or the next new one
RequestTexts ==
    (IF embeddings_cache = <<>> THEN {}
     ELSE {embeddings_cache[1][1],
           embeddings_cache[Len(embeddings_cache)][1]})
      \cup ((1..TextsMet) \ CacheKeys(embeddings_cache))
      \cup {TextsMet + 1}

InitCache == dbStart /\ dbIdle

NextCache ==
    \E text \in RequestTexts, encodes \in BOOLEAN : GetEmbedding(text, encodes)

SpecCache == InitCache /\ [][NextCache]_vars

\* C29: the embedding cache never holds more than 1,000 entries, and an
\* insertion that overflows it evicts the entry inserted earliest, keeping
\* every other entry.
C29_CacheBounded ==
    [][ /\ Len(embeddings_cache') <= cache_size_limit
        /\ (Len(embeddings_cache) = cache_size_limit
              /\ embeddings_cache' # embeddings_cache) =>
             \E i \in DOMAIN embeddings_cache :
                /\ \A j \in DOMAIN embeddings_cache :
                      embeddings_cache[i][2] <= embeddings_cache[j][2]
                /\ embeddings_cache[i][1] \notin CacheKeys(embeddings_cache')
                /\ \A j \in DOMAIN embeddings_cache :
                      j # i => \E k \in DOMAIN embeddings_cache' :
                                  embeddings_cache'[k] = embeddings_cache[j]
      ]_vars

\* the full cache has lost its first two texts, and the first text, met
\* again, is the newest entry
C29_Witness ==
    /\ Len(embeddings_cache) = cache_size_limit
    /\ embeddings_cache[1][1] = 3
    /\ embeddings_cache[cache_size_limit][1] = 1


(***************************************************************************)
(* SpecJobMatch: applications of two candidates and a recruiter, and the   *)
(* per-job matching run over them                                          *)
(***************************************************************************)
JobApplicants == {"c1", "c2", "rx"}

InitJobMatch == InitApps

NextJobMatch ==
    \/ \E u \in JobApplicants : \E j \in RequestJobIds : \E r \in ResumeUrls :
          nextApp < MaxApps /\ CreateApplication(u, j, r)
    \/ \E u \in DbUsers : \E j \in RequestJobIds :
          \E p \in SUBSET ApplicationsWithResume(j) :
              MatchResumesForJob(u, j, p)

SpecJobMatch == InitJobMatch /\ [][NextJobMatch]_vars

\* C30: in per-job matching every returned candidate entry is joined to the
\* application whose resume produced it: distinct applications yield
\* distinct entries, each with its own application id, candidate id and
\* resume URL.
C30_ResultsJoinOwnApplication ==
    [][\A u \in DbUsers : \A j \in RequestJobIds :
         \A p \in SUBSET ApplicationsWithResume(j) :
            (MatchResumesForJob(u, j, p) /\ resp'.status = 200) =>
                /\ \A c \in CandidateResults(p) :
                      \E a \in p :
                         /\ a.id = c.resume_of
                         /\ c.application_id = a.id
                         /\ c.candidate_id = a.user_id
                         /\ c.resume_url = a.resume_url
                /\ resp'.body = {a.id : a \in p}
      ]_vars

=============================================================================
